---- MODULE Spec2Model ----
(***************************************************************************)
(* Ultimate Tic-Tac-Toe: the rules engine (src/services/gameLogic.ts), the *)
(* shared constants (src/unnamed/part_001, i.e. constants.ts) and the      *)
(* application's event handlers (src/unnamed/part_000, i.e. App.tsx).      *)
(*                                                                         *)
(* JavaScript arrays are modelled as functions over 0..8 (boards, cells,   *)
(* macroBoard) and as sequences (history, undoneMoves, move lists);        *)
(* null is the string "null" for marks and outcomes, and -1 for an index.  *)
(***************************************************************************)
EXTENDS Integers, Sequences, FiniteSets, TLC

VARIABLES
    gameMode,       \* App: gameMode  ("none" | "local" | "cpu" | "online")
    gameState,      \* App: gameState (a GameState value)
    undoneMoves,    \* App: undoneMoves (redo stack, a sequence of MoveHistory)
    myPlayerId,     \* App: myPlayerId
    connected,      \* App: peerService holds an open connection
    stray,          \* this connection has delivered a message outside online mode
    heap,           \* the objects makeMove writes to: cells arrays, boards, macro arrays
    states,         \* the GameState objects made so far, their arrays held by reference
    inputOf,        \* inputOf[j]: the index in states of the state states[j] was made from
    listener,       \* src/App.tsx: the gameState seen by the handleMove that onData calls
    asked,          \* the last getBestMove call: its difficulty and its deadline
    answer,         \* what that call returned
    rawScore,       \* the last evaluateState call: its player and what it returned
    analysis,       \* the last analyzeMoveQuality call: its move and what it returned
    statsRecorded,  \* App: statsRecorded
    recorded,       \* the results recorded in the profile since the game started
    timer,          \* the gameState seen by the AI effect's pending timer, or NoTimer
    engine,         \* what getBestMove can return for timer, found when the timer is set
    peers,          \* two connected Apps: peers[p] is the gameState of the App playing p
    wire            \* wire[p]: the messages sent to the App playing p, not yet delivered

avars == <<gameMode, gameState, undoneMoves, myPlayerId, connected, stray>>
hvars == <<heap, states, inputOf>>
rvars == <<rawScore, analysis>>
xvars == <<listener, asked, answer, rvars>>
evars == <<statsRecorded, recorded, timer, engine>>
\* The profile store and the engine's answers are followed by some
\* specifications only.
fvars == <<recorded, engine>>
ovars == <<peers, wire>>
vars == <<avars, hvars, xvars, evars, ovars>>

------------------------------------------------------------------------------
(* types.ts *)

Null == "null"
Players == {"X", "O"}
NoBoard == -1
Idx == 0..8
NoMove == [boardIndex |-> NoBoard, cellIndex |-> NoBoard]
Undefined == "undefined"

\* No getBestMove call has been made in this position.
NotAsked == [difficulty |-> Undefined, deadline |-> 0]

\* No evaluateState call has been made in this position.
NoScore == [player |-> Null, score |-> 0]

\* No analyzeMoveQuality call has been made in this position.  A bestMove that
\* is undefined is NoMove.
NotAnalysed ==
    [moveMade |-> NoMove, classification |-> Undefined, score |-> 0, bestMove |-> NoMove]

Other(p) == IF p = "X" THEN "O" ELSE "X"

------------------------------------------------------------------------------
(* constants.ts *)

WINNING_PATTERNS ==
    << <<0, 1, 2>>, <<3, 4, 5>>, <<6, 7, 8>>,
       <<0, 3, 6>>, <<1, 4, 7>>, <<2, 5, 8>>,
       <<0, 4, 8>>, <<2, 4, 6>> >>

\* Array(9).fill(v): the array with v at each of the indices 0..8.
Array9(v) ==
    (0 :> v) @@ (1 :> v) @@ (2 :> v) @@ (3 :> v) @@ (4 :> v) @@
    (5 :> v) @@ (6 :> v) @@ (7 :> v) @@ (8 :> v)

INITIAL_GAME_STATE ==
    [ boards        |-> Array9([cells |-> Array9(Null), winner |-> Null]),
      macroBoard    |-> Array9(Null),
      activeBoard   |-> NoBoard,
      currentPlayer |-> "X",
      winner        |-> Null,
      history       |-> << >>,
      difficulty    |-> Undefined,
      lastMove      |-> NoMove ]

------------------------------------------------------------------------------
(* gameLogic.ts *)

MinOf(S) == CHOOSE x \in S : \A y \in S : x <= y

\* cells.every(c => c !== null)
AllFilled(cells) == \A i \in Idx : cells[i] # Null

\* The indices of the patterns whose three cells hold the same truthy value.
MatchingPatterns(cells) ==
    { k \in 1..Len(WINNING_PATTERNS) :
        LET p == WINNING_PATTERNS[k] IN
          /\ cells[p[1]] # Null
          /\ cells[p[1]] = cells[p[2]]
          /\ cells[p[1]] = cells[p[3]] }

\* A variant that never reports a draw.
checkBoardWinner_NoDraw(cells) ==
    LET matching == MatchingPatterns(cells)
    IN IF matching # {}
       THEN cells[WINNING_PATTERNS[MinOf(matching)][1]]
       ELSE Null

\* A variant that tests "all filled" before the lines.
checkBoardWinner_FullFirst(cells) ==
    IF AllFilled(cells) THEN "Draw"
    ELSE IF MatchingPatterns(cells) # {}
         THEN cells[WINNING_PATTERNS[MinOf(MatchingPatterns(cells))][1]]
         ELSE Null

checkBoardWinner(cells) ==
    LET matching == MatchingPatterns(cells)
    IN IF matching # {}
       THEN cells[WINNING_PATTERNS[MinOf(matching)][1]]
       ELSE IF AllFilled(cells) THEN "Draw" ELSE Null

\* A variant that forgets the check of the target board's outcome.
isMoveValid_NoBoardCheck(state, boardIndex, cellIndex) ==
    IF state.winner # Null THEN FALSE
    ELSE IF state.activeBoard # NoBoard /\ state.activeBoard # boardIndex THEN FALSE
    ELSE IF state.boards[boardIndex].cells[cellIndex] # Null THEN FALSE
    ELSE TRUE

\* A variant that forgets the check of the target cell.
isMoveValid_NoCellCheck(state, boardIndex, cellIndex) ==
    IF state.winner # Null THEN FALSE
    ELSE IF state.activeBoard # NoBoard /\ state.activeBoard # boardIndex THEN FALSE
    ELSE IF state.boards[boardIndex].winner # Null THEN FALSE
    ELSE TRUE

isMoveValid(state, boardIndex, cellIndex) ==
    IF state.winner # Null THEN FALSE
    ELSE IF state.activeBoard # NoBoard /\ state.activeBoard # boardIndex THEN FALSE
    ELSE IF state.boards[boardIndex].winner # Null THEN FALSE
    ELSE IF state.boards[boardIndex].cells[cellIndex] # Null THEN FALSE
    ELSE TRUE

\* makeMove, lines 45-56: the copied boards with the cell marked and, when the
\* small board is now decided, its winner set.
MarkedBoards(state, boardIndex, cellIndex) ==
    LET newCells == [state.boards[boardIndex].cells EXCEPT ![cellIndex] = state.currentPlayer]
        smallBoardWinner == checkBoardWinner(newCells)
    IN [state.boards EXCEPT ![boardIndex] =
           [cells  |-> newCells,
            winner |-> IF smallBoardWinner # Null THEN smallBoardWinner ELSE @.winner]]

\* A variant that records the small board's outcome in the board only.
MarkedMacro_NoMirror(state, boardIndex, cellIndex) == state.macroBoard

\* makeMove, lines 46 and 52-56: the copied macro board.
MarkedMacro(state, boardIndex, cellIndex) ==
    LET newCells == [state.boards[boardIndex].cells EXCEPT ![cellIndex] = state.currentPlayer]
        smallBoardWinner == checkBoardWinner(newCells)
    IN IF smallBoardWinner # Null
       THEN [state.macroBoard EXCEPT ![boardIndex] = smallBoardWinner]
       ELSE state.macroBoard

\* A variant that always sends the next player to board cellIndex.
NextActiveBoard_Always(newBoards, cellIndex) == cellIndex

\* A variant that only looks for a full board, not for a decided one.
NextActiveBoard_FullOnly(newBoards, cellIndex) ==
    IF AllFilled(newBoards[cellIndex].cells) THEN NoBoard ELSE cellIndex

\* makeMove, lines 63-68.
NextActiveBoard(newBoards, cellIndex) ==
    IF newBoards[cellIndex].winner # Null \/ AllFilled(newBoards[cellIndex].cells)
    THEN NoBoard
    ELSE cellIndex

\* A variant that looks up the next active board in the boards before the move.
makeMove_StaleBoards(state, boardIndex, cellIndex) ==
    LET newBoards     == MarkedBoards(state, boardIndex, cellIndex)
        newMacroBoard == MarkedMacro(state, boardIndex, cellIndex)
        globalWinner  == checkBoardWinner(newMacroBoard)
    IN [ boards        |-> newBoards,
         macroBoard    |-> newMacroBoard,
         activeBoard   |-> NextActiveBoard(state.boards, cellIndex),
         currentPlayer |-> Other(state.currentPlayer),
         winner        |-> globalWinner,
         history       |-> Append(state.history,
                                  [boardIndex |-> boardIndex, cellIndex |-> cellIndex,
                                   player |-> state.currentPlayer]),
         difficulty    |-> state.difficulty,
         lastMove      |-> [boardIndex |-> boardIndex, cellIndex |-> cellIndex] ]

\* A variant that leaves the turn with the player who moved.
makeMove_SamePlayer(state, boardIndex, cellIndex) ==
    LET newBoards     == MarkedBoards(state, boardIndex, cellIndex)
        newMacroBoard == MarkedMacro(state, boardIndex, cellIndex)
        globalWinner  == checkBoardWinner(newMacroBoard)
    IN [ boards        |-> newBoards,
         macroBoard    |-> newMacroBoard,
         activeBoard   |-> NextActiveBoard(newBoards, cellIndex),
         currentPlayer |-> state.currentPlayer,
         winner        |-> globalWinner,
         history       |-> Append(state.history,
                                  [boardIndex |-> boardIndex, cellIndex |-> cellIndex,
                                   player |-> state.currentPlayer]),
         difficulty    |-> state.difficulty,
         lastMove      |-> [boardIndex |-> boardIndex, cellIndex |-> cellIndex] ]

makeMove(state, boardIndex, cellIndex) ==
    LET newBoards     == MarkedBoards(state, boardIndex, cellIndex)
        newMacroBoard == MarkedMacro(state, boardIndex, cellIndex)
        globalWinner  == checkBoardWinner(newMacroBoard)
    IN [ boards        |-> newBoards,
         macroBoard    |-> newMacroBoard,
         activeBoard   |-> NextActiveBoard(newBoards, cellIndex),
         currentPlayer |-> Other(state.currentPlayer),
         winner        |-> globalWinner,
         history       |-> Append(state.history,
                                  [boardIndex |-> boardIndex, cellIndex |-> cellIndex,
                                   player |-> state.currentPlayer]),
         difficulty    |-> state.difficulty,
         lastMove      |-> [boardIndex |-> boardIndex, cellIndex |-> cellIndex] ]

\* The empty cells of board bIdx from cell cIdx on, in ascending order.
RECURSIVE CellMoves(_, _, _)
CellMoves(state, bIdx, cIdx) ==
    IF cIdx > 8 THEN << >>
    ELSE (IF state.boards[bIdx].cells[cIdx] = Null
          THEN << [boardIndex |-> bIdx, cellIndex |-> cIdx] >>
          ELSE << >>) \o CellMoves(state, bIdx, cIdx + 1)

\* The moves of the boards boardsToCheck[k..], skipping decided boards.
RECURSIVE BoardMoves(_, _, _)
BoardMoves(state, boardsToCheck, k) ==
    IF k > Len(boardsToCheck) THEN << >>
    ELSE (IF state.boards[boardsToCheck[k]].winner # Null
          THEN << >>
          ELSE CellMoves(state, boardsToCheck[k], 0))
         \o BoardMoves(state, boardsToCheck, k + 1)

\* A variant that looks at all nine boards whatever activeBoard is.
getAvailableMoves_Everywhere(state) ==
    BoardMoves(state, << 0, 1, 2, 3, 4, 5, 6, 7, 8 >>, 1)

getAvailableMoves(state) ==
    LET boardsToCheck == IF state.activeBoard # NoBoard
                         THEN << state.activeBoard >>
                         ELSE << 0, 1, 2, 3, 4, 5, 6, 7, 8 >>
    IN BoardMoves(state, boardsToCheck, 1)

\* for (const move of moves) currentState = makeMove(currentState, ...)
\* The loop over moves is the loop over its first half followed by the loop over
\* its second half from the state the first one ends in.  The state in the
\* middle is computed (the test on its fields) before the second half starts,
\* as currentState is in the loop.
RECURSIVE ApplyMoves(_, _)
ApplyMoves(state, moves) ==
    IF moves = << >> THEN state
    ELSE IF Len(moves) = 1
         THEN makeMove(state, moves[1].boardIndex, moves[1].cellIndex)
         ELSE LET half == Len(moves) \div 2
                  mid  == ApplyMoves(state, SubSeq(moves, 1, half))
              IN IF DOMAIN mid # {}
                 THEN ApplyMoves(mid, SubSeq(moves, half + 1, Len(moves)))
                 ELSE mid

\* A variant that replays all but the last move and patches the log.
reconstructGameState_Patch(moves, initialDifficulty) ==
    LET start == [INITIAL_GAME_STATE EXCEPT !.difficulty = initialDifficulty]
    IN IF moves = << >> THEN start
       ELSE [ApplyMoves(start, SubSeq(moves, 1, Len(moves) - 1)) EXCEPT !.history = moves]

reconstructGameState(moves, initialDifficulty) ==
    ApplyMoves([INITIAL_GAME_STATE EXCEPT !.difficulty = initialDifficulty], moves)

------------------------------------------------------------------------------
(* gameLogic.ts with its objects held by reference.  A cells array, a board  *)
(* object and a macro array live in heap.cells, heap.boards and heap.macros  *)
(* at the address that is their index there; a GameState holds the addresses *)
(* of its nine boards and of its macro array.  The boards array, the history *)
(* array and the GameState object itself are never written after they are    *)
(* made and are held as values.                                              *)

\* INITIAL_GAME_STATE's objects: cells arrays 1..9, boards 1..9, macro array 1.
InitialHeap ==
    [ cells  |-> [a \in 1..9 |-> Array9(Null)],
      boards |-> [a \in 1..9 |-> [cells |-> a, winner |-> Null]],
      macros |-> << Array9(Null) >> ]

\* INITIAL_GAME_STATE as a GameState object.
InitialRef ==
    [ boards        |-> [i \in Idx |-> i + 1],
      macroBoard    |-> 1,
      activeBoard   |-> NoBoard,
      currentPlayer |-> "X",
      winner        |-> Null,
      history       |-> << >>,
      difficulty    |-> Undefined,
      lastMove      |-> NoMove ]

\* The GameState value the object state holds in heap h.
Deep(h, state) ==
    [ boards        |-> [i \in Idx |->
                           [cells  |-> h.cells[h.boards[state.boards[i]].cells],
                            winner |-> h.boards[state.boards[i]].winner]],
      macroBoard    |-> h.macros[state.macroBoard],
      activeBoard   |-> state.activeBoard,
      currentPlayer |-> state.currentPlayer,
      winner        |-> state.winner,
      history       |-> state.history,
      difficulty    |-> state.difficulty,
      lastMove      |-> state.lastMove ]

\* A variant that spreads each board and keeps its cells array: ({ ...b }).
CopyBoards_SharedCells(h, boards) ==
    [ heap   |-> [h EXCEPT !.boards = h.boards \o
                     [i \in 1..9 |-> [cells  |-> h.boards[boards[i - 1]].cells,
                                      winner |-> h.boards[boards[i - 1]].winner]]],
      boards |-> [i \in Idx |-> Len(h.boards) + 1 + i] ]

\* makeMove, line 45: state.boards.map(b => ({ ...b, cells: [...b.cells] })).
\* Nine new cells arrays and nine new board objects; the new boards array.
CopyBoards(h, boards) ==
    [ heap   |-> [h EXCEPT
                     !.cells  = h.cells \o
                        [i \in 1..9 |-> h.cells[h.boards[boards[i - 1]].cells]],
                     !.boards = h.boards \o
                        [i \in 1..9 |-> [cells  |-> Len(h.cells) + i,
                                         winner |-> h.boards[boards[i - 1]].winner]]],
      boards |-> [i \in Idx |-> Len(h.boards) + 1 + i] ]

\* A variant that goes on with the macro array of its input.
CopyMacro_Shared(h, macroBoard) ==
    [ heap  |-> h,
      macro |-> macroBoard ]

\* makeMove, line 46: [...state.macroBoard].
CopyMacro(h, macroBoard) ==
    [ heap  |-> [h EXCEPT !.macros = Append(h.macros, h.macros[macroBoard])],
      macro |-> Len(h.macros) + 1 ]

\* makeMove on objects: the heap after the call and the GameState it returns.
makeMoveH(h, state, boardIndex, cellIndex) ==
    LET copied        == CopyBoards(h, state.boards)
        newBoards     == copied.boards
        copiedMacro   == CopyMacro(copied.heap, state.macroBoard)
        newMacroBoard == copiedMacro.macro
        h2            == copiedMacro.heap
        currentBoard  == newBoards[boardIndex]
        h3            == [h2 EXCEPT !.cells[h2.boards[currentBoard].cells][cellIndex] =
                                       state.currentPlayer]
        smallBoardWinner == checkBoardWinner(h3.cells[h3.boards[currentBoard].cells])
        h4            == IF smallBoardWinner # Null
                         THEN [h3 EXCEPT !.boards[currentBoard].winner = smallBoardWinner,
                                         !.macros[newMacroBoard][boardIndex] = smallBoardWinner]
                         ELSE h3
        globalWinner  == checkBoardWinner(h4.macros[newMacroBoard])
        target        == h4.boards[newBoards[cellIndex]]
        nextActiveBoard == IF target.winner # Null \/ AllFilled(h4.cells[target.cells])
                           THEN NoBoard
                           ELSE cellIndex
    IN [ heap  |-> h4,
         state |-> [ boards        |-> newBoards,
                     macroBoard    |-> newMacroBoard,
                     activeBoard   |-> nextActiveBoard,
                     currentPlayer |-> Other(state.currentPlayer),
                     winner        |-> globalWinner,
                     history       |-> Append(state.history,
                                              [boardIndex |-> boardIndex,
                                               cellIndex |-> cellIndex,
                                               player |-> state.currentPlayer]),
                     difficulty    |-> state.difficulty,
                     lastMove      |-> [boardIndex |-> boardIndex,
                                        cellIndex |-> cellIndex] ] ]

\* The heap once the objects made after heap h was taken are dropped: a state
\* nothing refers to any more is garbage.
Dropped(h, after) ==
    [ cells  |-> SubSeq(after.cells, 1, Len(h.cells)),
      boards |-> SubSeq(after.boards, 1, Len(h.boards)),
      macros |-> SubSeq(after.macros, 1, Len(h.macros)) ]

------------------------------------------------------------------------------
(* ai.ts *)

Difficulties == {"easy", "medium"}

\* Every value getBestMove's difficulty parameter takes: the four tiers, the
\* parameter left out (its default applies) and a value that is none of them.
Tiers == {"easy", "medium", "hard", "impossible", Undefined, "other"}

MAX_DEPTH_IMPOSSIBLE == 12
WIN_SCORE == 10000000

\* The strategic weights W.
LINE_2 == 10
LINE_1 == 1
BLOCK_OPP_2 == 15
BOARD_WON == 150
BOARD_LOST == -150
MACRO_WIN_THREAT == 5000
MACRO_BLOCK_THREAT == 6000
MACRO_LINE_1 == 200
MACRO_CENTER == 5
MACRO_CORNER == 3
MACRO_EDGE == 1
GIVE_FREE_MOVE == -5000
SEND_TO_WINNABLE == -4000

\* Number.POSITIVE_INFINITY among the scores, all of which lie strictly between
\* -Infinity and Infinity.
Infinity == 1000000000

Max(a, b) == IF a >= b THEN a ELSE b
Min(a, b) == IF a <= b THEN a ELSE b

RECURSIVE Sum(_, _)
\* f[1] + ... + f[n]
Sum(f, n) == IF n = 0 THEN 0 ELSE Sum(f, n - 1) + f[n]

\* A variant whose centre multiplier is ten times as large.
getMacroWeight_CentreFifty(idx) ==
    IF idx = 4 THEN 10 * MACRO_CENTER
    ELSE IF idx \in {0, 2, 6, 8} THEN MACRO_CORNER
    ELSE MACRO_EDGE

\* A variant whose multipliers make one won sub-board worth more than the game.
getMacroWeight_Huge(idx) == 20000 * getMacroWeight_CentreFifty(idx)

getMacroWeight(idx) ==
    IF idx = 4 THEN MACRO_CENTER
    ELSE IF idx \in {0, 2, 6, 8} THEN MACRO_CORNER
    ELSE MACRO_EDGE

\* How many of the three places of pattern hold mark v.
Count(grid, pattern, v) == Cardinality({ i \in 1..3 : grid[pattern[i]] = v })

evaluateSmallBoardRaw(cells, player, opponent) ==
    LET line(k) ==
            LET pCount == Count(cells, WINNING_PATTERNS[k], player)
                oCount == Count(cells, WINNING_PATTERNS[k], opponent)
            IN IF pCount > 0 /\ oCount = 0
               THEN (IF pCount = 2 THEN LINE_2 ELSE LINE_1)
               ELSE IF oCount > 0 /\ pCount = 0
               THEN (IF oCount = 2 THEN -LINE_2 ELSE -LINE_1)
               ELSE IF oCount = 2 /\ pCount = 1 THEN BLOCK_OPP_2
               ELSE 0
    IN (IF cells[4] = player THEN 5 ELSE 0)
       + (IF cells[4] = opponent THEN -5 ELSE 0)
       + Sum([k \in 1..8 |-> line(k)], 8)

canWinBoard(cells, player) ==
    \E i \in Idx : /\ cells[i] = Null
                   /\ checkBoardWinner([cells EXCEPT ![i] = player]) = player

\* A variant whose first loop returns only at a line of the player's own.
evaluateStateAdvanced_NoLoss(state, player) ==
    LET opponent == Other(player)
        pCount(k) == Count(state.macroBoard, WINNING_PATTERNS[k], player)
        oCount(k) == Count(state.macroBoard, WINNING_PATTERNS[k], opponent)
        draws(k)  == Count(state.macroBoard, WINNING_PATTERNS[k], "Draw")
        \* the patterns at which the first loop returns
        decided == { k \in 1..8 : draws(k) = 0 /\ pCount(k) = 3 }
        macro(k) ==
            IF draws(k) # 0 THEN 0
            ELSE IF pCount(k) = 2 /\ oCount(k) = 0 THEN MACRO_WIN_THREAT
            ELSE IF oCount(k) = 2 /\ pCount(k) = 0 THEN -MACRO_BLOCK_THREAT
            ELSE IF pCount(k) = 1 /\ oCount(k) = 0 THEN MACRO_LINE_1
            ELSE IF oCount(k) = 1 /\ pCount(k) = 0 THEN -MACRO_LINE_1
            ELSE 0
        small(i) ==
            LET board  == state.boards[i - 1]
                weight == getMacroWeight(i - 1)
            IN IF board.winner = player THEN BOARD_WON * weight
               ELSE IF board.winner = opponent THEN BOARD_LOST * weight
               ELSE IF board.winner = "Draw" THEN -20
               ELSE evaluateSmallBoardRaw(board.cells, player, opponent) * weight
        penalty ==
            IF state.currentPlayer # opponent THEN 0
            ELSE IF state.activeBoard = NoBoard THEN GIVE_FREE_MOVE
            ELSE IF canWinBoard(state.boards[state.activeBoard].cells, opponent)
                 THEN SEND_TO_WINNABLE
            ELSE 0
    IN IF decided # {}
       THEN (IF pCount(MinOf(decided)) = 3 THEN WIN_SCORE ELSE -WIN_SCORE)
       ELSE Sum([k \in 1..8 |-> macro(k)], 8) + Sum([i \in 1..9 |-> small(i)], 9) + penalty

evaluateStateAdvanced(state, player) ==
    LET opponent == Other(player)
        pCount(k) == Count(state.macroBoard, WINNING_PATTERNS[k], player)
        oCount(k) == Count(state.macroBoard, WINNING_PATTERNS[k], opponent)
        draws(k)  == Count(state.macroBoard, WINNING_PATTERNS[k], "Draw")
        \* the patterns at which the first loop returns
        decided == { k \in 1..8 : draws(k) = 0 /\ (pCount(k) = 3 \/ oCount(k) = 3) }
        macro(k) ==
            IF draws(k) # 0 THEN 0
            ELSE IF pCount(k) = 2 /\ oCount(k) = 0 THEN MACRO_WIN_THREAT
            ELSE IF oCount(k) = 2 /\ pCount(k) = 0 THEN -MACRO_BLOCK_THREAT
            ELSE IF pCount(k) = 1 /\ oCount(k) = 0 THEN MACRO_LINE_1
            ELSE IF oCount(k) = 1 /\ pCount(k) = 0 THEN -MACRO_LINE_1
            ELSE 0
        small(i) ==
            LET board  == state.boards[i - 1]
                weight == getMacroWeight(i - 1)
            IN IF board.winner = player THEN BOARD_WON * weight
               ELSE IF board.winner = opponent THEN BOARD_LOST * weight
               ELSE IF board.winner = "Draw" THEN -20
               ELSE evaluateSmallBoardRaw(board.cells, player, opponent) * weight
        penalty ==
            IF state.currentPlayer # opponent THEN 0
            ELSE IF state.activeBoard = NoBoard THEN GIVE_FREE_MOVE
            ELSE IF canWinBoard(state.boards[state.activeBoard].cells, opponent)
                 THEN SEND_TO_WINNABLE
            ELSE 0
    IN IF decided # {}
       THEN (IF pCount(MinOf(decided)) = 3 THEN WIN_SCORE ELSE -WIN_SCORE)
       ELSE Sum([k \in 1..8 |-> macro(k)], 8) + Sum([i \in 1..9 |-> small(i)], 9) + penalty

evaluateState(state, player) == evaluateStateAdvanced(state, player)

\* Array.prototype.sort with (a, b) => b.score - a.score: descending by score,
\* equal scores in their order in moves (the sort is stable).  score[k] is the
\* score of moves[k]; rank[k] is the place of moves[k] in the result.
SortedByScore(moves, score) ==
    LET n == Len(moves)
        rank == [k \in 1..n |->
                    Cardinality({ j \in 1..n : \/ score[j] > score[k]
                                               \/ score[j] = score[k] /\ j < k }) + 1]
    IN IF rank = << >> THEN moves
       ELSE [r \in 1..n |-> moves[CHOOSE k \in 1..n : rank[k] = r]]

orderMoves(state, moves, player) ==
    LET opponent == Other(player)
        scoreOf(move) ==
            LET targetBoard == state.boards[move.boardIndex]
                macroTest   == [state.macroBoard EXCEPT ![move.boardIndex] = player]
                testCells   == [targetBoard.cells EXCEPT ![move.cellIndex] = player]
                destBoard   == state.boards[move.cellIndex]
            IN (IF checkBoardWinner(macroTest) = player THEN WIN_SCORE ELSE 0)
               + (IF checkBoardWinner(testCells) = player
                  THEN BOARD_WON * getMacroWeight(move.boardIndex) * 10 ELSE 0)
               + (IF destBoard.winner # Null \/ AllFilled(destBoard.cells)
                  THEN GIVE_FREE_MOVE
                  ELSE IF canWinBoard(destBoard.cells, opponent) THEN SEND_TO_WINNABLE
                  ELSE 0)
               + (IF move.cellIndex = 4 THEN 20 ELSE 0)
        score == [k \in 1..Len(moves) |-> scoreOf(moves[k])]
    IN IF score = << >> THEN moves ELSE SortedByScore(moves, score)

\* The deadline is the clock: performance.now() is read once at the top of
\* every depth (line 117) and once on entry to every minimax node (line 172).
\* The reads are numbered 1, 2, ... in the order they happen; the read numbered
\* fire is the first one that finds the time limit exceeded, and so do all
\* later ones.  t counts the reads made so far.
Expired(t, fire) == t >= fire

RECURSIVE minimax(_, _, _, _, _, _, _, _)
RECURSIVE MinimaxLoop(_, _, _, _, _, _, _, _, _, _, _)
RECURSIVE MinimaxStep(_, _, _, _, _, _, _, _, _, _, _)

\* A variant whose decisive scores leave the remaining depth out.
minimax_NoDepth(state, depth, alpha, beta, isMaximizing, aiPlayer, t, fire) ==
    IF Expired(t + 1, fire) THEN [v |-> 0, t |-> t + 1, out |-> TRUE]
    ELSE IF state.winner = aiPlayer THEN [v |-> WIN_SCORE, t |-> t + 1, out |-> FALSE]
    ELSE IF state.winner # Null /\ state.winner # "Draw"
         THEN [v |-> -WIN_SCORE, t |-> t + 1, out |-> FALSE]
    ELSE IF state.winner = "Draw" THEN [v |-> 0, t |-> t + 1, out |-> FALSE]
    ELSE IF depth = 0
         THEN [v |-> evaluateStateAdvanced(state, aiPlayer), t |-> t + 1, out |-> FALSE]
    ELSE IF Len(getAvailableMoves(state)) = 0 THEN [v |-> 0, t |-> t + 1, out |-> FALSE]
    ELSE MinimaxLoop(state, getAvailableMoves(state), 1, depth, alpha, beta, isMaximizing,
                     aiPlayer, IF isMaximizing THEN -Infinity ELSE Infinity, t + 1, fire)

\* minimax: [v |-> the score returned, t |-> the reads made, out |-> "Timeout" thrown].
minimax(state, depth, alpha, beta, isMaximizing, aiPlayer, t, fire) ==
    IF Expired(t + 1, fire) THEN [v |-> 0, t |-> t + 1, out |-> TRUE]
    ELSE IF state.winner = aiPlayer THEN [v |-> WIN_SCORE + depth, t |-> t + 1, out |-> FALSE]
    ELSE IF state.winner # Null /\ state.winner # "Draw"
         THEN [v |-> -WIN_SCORE - depth, t |-> t + 1, out |-> FALSE]
    ELSE IF state.winner = "Draw" THEN [v |-> 0, t |-> t + 1, out |-> FALSE]
    ELSE IF depth = 0
         THEN [v |-> evaluateStateAdvanced(state, aiPlayer), t |-> t + 1, out |-> FALSE]
    ELSE IF Len(getAvailableMoves(state)) = 0 THEN [v |-> 0, t |-> t + 1, out |-> FALSE]
    ELSE MinimaxLoop(state, getAvailableMoves(state), 1, depth, alpha, beta, isMaximizing,
                     aiPlayer, IF isMaximizing THEN -Infinity ELSE Infinity, t + 1, fire)

\* The loop of minimax over moves, from moves[k] on, best being maxEval or minEval.
MinimaxLoop(state, moves, k, depth, alpha, beta, isMaximizing, aiPlayer, best, t, fire) ==
    IF k > Len(moves) THEN [v |-> best, t |-> t, out |-> FALSE]
    ELSE MinimaxStep(state, moves, k, depth, alpha, beta, isMaximizing, aiPlayer, best, fire,
                     minimax(makeMove(state, moves[k].boardIndex, moves[k].cellIndex),
                             depth - 1, alpha, beta, ~isMaximizing, aiPlayer, t, fire))

\* A variant that breaks out of the loop after its first turn.
MinimaxStep_CutAfterFirst(state, moves, k, depth, alpha, beta, isMaximizing, aiPlayer, best, fire, r) ==
    IF r.out THEN r
    ELSE [v |-> IF isMaximizing THEN Max(best, r.v) ELSE Min(best, r.v),
          t |-> r.t, out |-> FALSE]

\* The rest of one turn of that loop, r being what the recursive call gave: the
\* exception goes on up, or the bounds are updated and the loop goes on or breaks.
MinimaxStep(state, moves, k, depth, alpha, beta, isMaximizing, aiPlayer, best, fire, r) ==
    IF r.out THEN r
    ELSE IF isMaximizing
    THEN IF beta <= Max(alpha, r.v)
         THEN [v |-> Max(best, r.v), t |-> r.t, out |-> FALSE]
         ELSE MinimaxLoop(state, moves, k + 1, depth, Max(alpha, r.v), beta, isMaximizing,
                          aiPlayer, Max(best, r.v), r.t, fire)
    ELSE IF Min(beta, r.v) <= alpha
         THEN [v |-> Min(best, r.v), t |-> r.t, out |-> FALSE]
         ELSE MinimaxLoop(state, moves, k + 1, depth, alpha, Min(beta, r.v), isMaximizing,
                          aiPlayer, Min(best, r.v), r.t, fire)

RECURSIVE RootLoop(_, _, _, _, _, _, _, _, _)
RECURSIVE RootStep(_, _, _, _, _, _, _, _, _)

\* getImpossibleMove, lines 124-143: the loop over sortedMoves at one depth, from
\* sortedMoves[k] on; current is [move |-> currentBestMove, score |-> currentBestScore].
RootLoop(state, sortedMoves, k, depth, alpha, current, aiPlayer, t, fire) ==
    IF k > Len(sortedMoves) THEN [current |-> current, t |-> t, out |-> FALSE]
    ELSE RootStep(state, sortedMoves, k, depth, alpha, current, aiPlayer, fire,
                  minimax(makeMove(state, sortedMoves[k].boardIndex, sortedMoves[k].cellIndex),
                          depth - 1, alpha, Infinity, FALSE, aiPlayer, t, fire))

\* The rest of one turn of that loop, r being what minimax gave.
RootStep(state, sortedMoves, k, depth, alpha, current, aiPlayer, fire, r) ==
    IF r.out THEN [current |-> current, t |-> r.t, out |-> TRUE]
    ELSE IF Infinity <= Max(alpha, r.v)
    THEN [current |-> IF r.v > current.score
                      THEN [move |-> sortedMoves[k], score |-> r.v] ELSE current,
          t |-> r.t, out |-> FALSE]
    ELSE RootLoop(state, sortedMoves, k + 1, depth, Max(alpha, r.v),
                  IF r.v > current.score
                  THEN [move |-> sortedMoves[k], score |-> r.v] ELSE current,
                  aiPlayer, r.t, fire)

\* sortedMoves = [bestMove, ...sortedMoves.filter(m => m is not bestMove)]
BestFirst(sortedMoves, bestMove) ==
    <<bestMove>> \o SelectSeq(sortedMoves, LAMBDA m : m # bestMove)

RECURSIVE Deepen(_, _, _, _, _, _, _, _)
RECURSIVE DeepenStep_KeepPartial(_, _, _, _, _, _, _, _)
RECURSIVE DeepenStep(_, _, _, _, _, _, _, _)

\* A variant that keeps the best move of the depth the deadline interrupts.
DeepenStep_KeepPartial(state, sortedMoves, depth, maxDepth, best, aiPlayer, fire, r) ==
    IF r.out THEN [move |-> r.current.move, score |-> r.current.score, done |-> best.done]
    ELSE Deepen(state, BestFirst(sortedMoves, r.current.move), depth + 1, maxDepth,
                [move |-> r.current.move, score |-> r.current.score, done |-> depth],
                aiPlayer, r.t, fire)

\* getImpossibleMove, lines 145-157: the end of one depth, r being what the loop
\* over sortedMoves gave: the catch block breaks, or bestMove and bestScore are
\* assigned and the next depth starts with bestMove first.
DeepenStep(state, sortedMoves, depth, maxDepth, best, aiPlayer, fire, r) ==
    IF r.out THEN best
    ELSE Deepen(state, BestFirst(sortedMoves, r.current.move), depth + 1, maxDepth,
                [move |-> r.current.move, score |-> r.current.score, done |-> depth],
                aiPlayer, r.t, fire)

\* getImpossibleMove, lines 115-158: the iterations from depth on, best being
\* [move |-> bestMove, score |-> bestScore, done |-> the last depth that finished].
Deepen(state, sortedMoves, depth, maxDepth, best, aiPlayer, t, fire) ==
    IF depth > maxDepth THEN best
    ELSE IF Expired(t + 1, fire) THEN best
    ELSE DeepenStep(state, sortedMoves, depth, maxDepth, best, aiPlayer, fire,
                    RootLoop(state, sortedMoves, 1, depth, -Infinity,
                             [move |-> sortedMoves[1], score |-> -Infinity],
                             aiPlayer, t + 1, fire))

\* A variant that starts without a move to fall back on.
DeepSearch_NoFallback(state, moves, maxDepth, fire) ==
    LET aiPlayer == state.currentPlayer
    IN Deepen(state, orderMoves(state, moves, aiPlayer), 1, maxDepth,
              [move |-> NoMove, score |-> -Infinity, done |-> 0], aiPlayer, 0, fire)

\* getImpossibleMove with the loop bound as a parameter.
DeepSearch(state, moves, maxDepth, fire) ==
    LET aiPlayer == state.currentPlayer
    IN Deepen(state, orderMoves(state, moves, aiPlayer), 1, maxDepth,
              [move |-> moves[1], score |-> -Infinity, done |-> 0], aiPlayer, 0, fire)

getImpossibleMove(state, moves, fire) ==
    LET best == DeepSearch(state, moves, MAX_DEPTH_IMPOSSIBLE, fire)
    IN [boardIndex |-> best.move.boardIndex, cellIndex |-> best.move.cellIndex,
        score |-> best.score]

\* The reads of the clock at which the deadline is first found exceeded; only
\* the impossible tier reads the clock.
MaxReads == 20
Deadlines == 1..MaxReads
ClockFor(difficulty) == IF difficulty = "impossible" THEN Deadlines ELSE {1}

\* getBestMove, lines 81-93: the loop over orderedMoves replaces bestMove when
\* a score is strictly greater than bestScore, which starts at -Infinity, so it
\* ends with the first move of orderedMoves that has the greatest score.
HardBest(state, orderedMoves, aiPlayer) ==
    LET n == Len(orderedMoves)
        score == [k \in 1..n |->
                    evaluateStateAdvanced(
                        makeMove(state, orderedMoves[k].boardIndex, orderedMoves[k].cellIndex),
                        aiPlayer)]
        best == IF score = << >> THEN 0
                ELSE CHOOSE k \in 1..n :
                        /\ \A j \in 1..n : score[j] <= score[k]
                        /\ \A j \in 1..(k - 1) : score[j] < score[k]
    IN [boardIndex |-> orderedMoves[best].boardIndex,
        cellIndex |-> orderedMoves[best].cellIndex,
        score |-> score[best]]

\* The indices k of moves whose move the predicate Hit accepts.
Hits(moves, Hit(_)) == { k \in 1..Len(moves) : Hit(moves[k]) }

\* A variant that looks for a cell to block before it looks for a cell to win.
getBestMove_BlockFirst(state, difficulty, fire) ==
    LET moves    == getAvailableMoves(state)
        aiPlayer == state.currentPlayer
        opponent == Other(aiPlayer)
        Wins(m)  == makeMove(state, m.boardIndex, m.cellIndex).boards[m.boardIndex].winner
                      = aiPlayer
        Blocks(m) == checkBoardWinner(
                        [state.boards[m.boardIndex].cells EXCEPT ![m.cellIndex] = opponent])
                      = opponent
    IN IF Len(moves) = 0 THEN {}
       ELSE IF Hits(moves, Blocks) # {} THEN { moves[MinOf(Hits(moves, Blocks))] }
       ELSE IF Hits(moves, Wins) # {} THEN { moves[MinOf(Hits(moves, Wins))] }
       ELSE { moves[k] : k \in 1..Len(moves) }

\* A variant whose test for an empty move list is off by one.
getBestMove_EmptyTestOffByOne(state, difficulty, fire) ==
    LET moves == getAvailableMoves(state)
    IN IF Len(moves) <= 1 THEN {} ELSE { moves[k] : k \in 1..Len(moves) }

\* The results getBestMove can return when the clock makes read number fire the
\* first to find the deadline exceeded (Math.random picks any index); {} is null.
getBestMove(state, difficulty, fire) ==
    LET moves    == getAvailableMoves(state)
        aiPlayer == state.currentPlayer
        opponent == Other(aiPlayer)
        d        == IF difficulty = Undefined THEN "medium" ELSE difficulty
        Wins(m)  == makeMove(state, m.boardIndex, m.cellIndex).boards[m.boardIndex].winner
                      = aiPlayer
        Blocks(m) == checkBoardWinner(
                        [state.boards[m.boardIndex].cells EXCEPT ![m.cellIndex] = opponent])
                      = opponent
        AnyMove      == { moves[k] : k \in 1..Len(moves) }
    IN IF Len(moves) = 0 THEN {}
       ELSE IF d = "easy" THEN AnyMove
       ELSE IF d = "medium"
            THEN IF Hits(moves, Wins) # {} THEN { moves[MinOf(Hits(moves, Wins))] }
                 ELSE IF Hits(moves, Blocks) # {} THEN { moves[MinOf(Hits(moves, Blocks))] }
                 ELSE AnyMove
       ELSE IF d = "hard"
            THEN { HardBest(state, orderMoves(state, moves, aiPlayer), aiPlayer) }
       ELSE IF d = "impossible"
            THEN { getImpossibleMove(state, moves, fire) }
       ELSE { moves[1] }

\* A variant that calls a move best only when it scores more than the one
\* recommended.
Classified_StrictBest(diff, scoreMade, scoreBest) ==
    IF diff < 0 THEN "best"
    ELSE IF diff < 300 THEN "good"
    ELSE IF diff < 2000 THEN "inaccuracy"
    ELSE "blunder"

\* The classification analyzeMoveQuality gives to a difference of scores.
Classified(diff, scoreMade, scoreBest) ==
    LET classification ==
            IF diff < 50 THEN "best"
            ELSE IF diff < 300 THEN "good"
            ELSE IF diff < 2000 THEN "inaccuracy"
            ELSE "blunder"
        abs == IF scoreBest - scoreMade < 0 THEN scoreMade - scoreBest
               ELSE scoreBest - scoreMade
    IN IF classification = "best" /\ scoreMade > 1000 /\ abs < 10
       THEN "brilliant" ELSE classification

\* evaluateStateAdvanced(makeMove(state, move.boardIndex, move.cellIndex), player),
\* player being the one who makes the move.
ScoreAfter(state, move) ==
    evaluateStateAdvanced(makeMove(state, move.boardIndex, move.cellIndex),
                          state.currentPlayer)

\* analyzeMoveQuality, lines 390-404: from diff to the object returned.
Compared(moveMade, scoreMade, bestMove, scoreBest) ==
    [moveMade |-> moveMade,
     classification |-> Classified(scoreBest - scoreMade, scoreMade, scoreBest),
     score |-> scoreMade,
     bestMove |-> IF Classified(scoreBest - scoreMade, scoreMade, scoreBest) = "best"
                  THEN NoMove ELSE bestMove]

\* bestMove, the fields boardIndex and cellIndex of the one move in returned.
BestOf(returned) ==
    LET bestMoveObj == CHOOSE m \in returned : TRUE
    IN [boardIndex |-> bestMoveObj.boardIndex, cellIndex |-> bestMoveObj.cellIndex]

\* analyzeMoveQuality, lines 382-388: returned is what getBestMove gave.
Analysed(previousState, moveMade, returned) ==
    IF returned = {}
    THEN [moveMade |-> moveMade, classification |-> "forced",
          score |-> ScoreAfter(previousState, moveMade), bestMove |-> NoMove]
    ELSE Compared(moveMade, ScoreAfter(previousState, moveMade),
                  BestOf(returned), ScoreAfter(previousState, BestOf(returned)))

\* analyzeMoveQuality; getBestMove with 'hard' reads no clock and has one result.
analyzeMoveQuality(previousState, moveMade) ==
    Analysed(previousState, moveMade, getBestMove(previousState, "hard", 1))

------------------------------------------------------------------------------
(* The games the environment plays: move requests follow one of these logs,  *)
(* or leave it at a fan point with one request for any cell of the board.    *)

\* X completes the macro column 1, 4, 7 with its 21st move.
GameWinX ==
    <<
       <<7, 0>>, <<0, 7>>, <<7, 3>>, <<3, 4>>, <<4, 4>>, <<4, 7>>, <<7, 6>>, <<6, 1>>,
       <<1, 8>>, <<8, 4>>, <<4, 3>>, <<3, 1>>, <<1, 2>>, <<2, 1>>, <<1, 5>>, <<5, 7>>,
       <<4, 0>>, <<0, 8>>, <<8, 0>>, <<0, 4>>, <<4, 5>>
    >>

\* O completes the macro row 6, 7, 8 with its 22nd move.
GameWinO ==
    <<
       <<3, 8>>, <<8, 1>>, <<1, 4>>, <<4, 0>>, <<0, 8>>, <<8, 7>>, <<7, 8>>, <<8, 4>>,
       <<4, 6>>, <<6, 4>>, <<4, 7>>, <<7, 4>>, <<4, 3>>, <<3, 3>>, <<3, 7>>, <<7, 3>>,
       <<3, 6>>, <<6, 5>>, <<5, 3>>, <<7, 5>>, <<5, 6>>, <<6, 3>>
    >>

\* All nine sub-boards are won after 31 moves and no macro line is formed.
GameDraw ==
    <<
       <<6, 4>>, <<4, 3>>, <<3, 0>>, <<0, 8>>, <<8, 2>>, <<2, 3>>, <<3, 4>>, <<4, 0>>,
       <<0, 5>>, <<5, 1>>, <<1, 4>>, <<4, 6>>, <<6, 2>>, <<2, 5>>, <<5, 8>>, <<8, 8>>,
       <<8, 4>>, <<2, 4>>, <<8, 6>>, <<6, 3>>, <<3, 8>>, <<0, 4>>, <<6, 6>>, <<0, 0>>,
       <<5, 7>>, <<7, 4>>, <<5, 6>>, <<7, 3>>, <<1, 8>>, <<7, 5>>, <<1, 0>>
    >>

\* Sub-boards 0, 1 and 2 are all drawn after 45 moves; the six others are open.
GameDrawLine ==
    <<
       <<2, 0>>, <<0, 2>>, <<2, 2>>, <<2, 1>>, <<1, 0>>, <<0, 0>>, <<0, 1>>, <<1, 2>>,
       <<2, 5>>, <<5, 2>>, <<2, 3>>, <<3, 0>>, <<0, 6>>, <<6, 2>>, <<2, 7>>, <<7, 1>>,
       <<1, 1>>, <<1, 3>>, <<3, 2>>, <<2, 4>>, <<4, 2>>, <<2, 8>>, <<8, 1>>, <<1, 8>>,
       <<8, 0>>, <<0, 4>>, <<4, 0>>, <<0, 5>>, <<5, 0>>, <<0, 7>>, <<7, 2>>, <<2, 6>>,
       <<6, 1>>, <<1, 4>>, <<4, 4>>, <<4, 1>>, <<1, 6>>, <<6, 0>>, <<0, 3>>, <<3, 1>>,
       <<1, 5>>, <<5, 1>>, <<1, 7>>, <<7, 0>>, <<0, 8>>
    >>

\* X wins sub-board 3 by marking its ninth cell with the 21st move.
GameLastCell ==
    <<
       <<3, 7>>, <<7, 4>>, <<4, 3>>, <<3, 1>>, <<1, 3>>, <<3, 5>>, <<5, 7>>, <<7, 3>>,
       <<3, 3>>, <<3, 8>>, <<8, 5>>, <<5, 3>>, <<3, 4>>, <<4, 2>>, <<2, 8>>, <<8, 3>>,
       <<3, 2>>, <<2, 3>>, <<3, 0>>, <<0, 3>>, <<3, 6>>
    >>

\* X takes cells 0 and 1 of sub-board 4 and wins it with cell 2.
GameTopRow ==
    << <<4, 0>>, <<0, 4>>, <<4, 1>>, <<1, 4>>, <<4, 2>> >>

\* O to move in sub-board 5 can complete a line with cell 3, cell 4 or cell 7.
GameTie ==
    << <<7, 5>>, <<5, 0>>, <<0, 5>>, <<5, 6>>, <<6, 5>>, <<5, 8>>, <<8, 5>> >>

Games == {GameWinX, GameWinO, GameDraw, GameDrawLine, GameLastCell, GameTopRow}

MaxUndone == 2

\* The fan point of game g: the position before its last move.
FanAt(g) == { Len(g) - 1 }

MoveLog(history) == [i \in 1..Len(history) |-> <<history[i].boardIndex, history[i].cellIndex>>]

IsPrefix(p, s) == Len(p) <= Len(s) /\ SubSeq(s, 1, Len(p)) = p

\* The log stands at a fan point of some game.
InFan(log) ==
    \E g \in Games : Len(log) \in FanAt(g) /\ IsPrefix(log, g)

\* The move requests <<b, c>> the environment makes in the current state.
Requests ==
    LET log == MoveLog(gameState.history)
    IN { g[Len(log) + 1] : g \in { h \in Games : Len(log) < Len(h) /\ IsPrefix(log, h) } }
       \cup (IF InFan(log) THEN Idx \X Idx ELSE {})

------------------------------------------------------------------------------
(* App.tsx (src/unnamed/part_000) *)

\* No timer of the AI turn effect is pending.
NoTimer == [INITIAL_GAME_STATE EXCEPT !.currentPlayer = Null]

\* What getBestMove(state, state.difficulty) can return: any deadline of the
\* clock, any pick of Math.random.
EngineMoves(state) ==
    UNION { getBestMove(state, state.difficulty, fire) : fire \in ClockFor(state.difficulty) }

\* The game-end effect after the render that follows a handler, which left
\* statsRecorded at flag: the effect takes its first branch.
GameEnds(flag) == gameState'.winner # Null /\ ~flag /\ gameMode' # "none"

GameEnd(flag) ==
    statsRecorded' = IF GameEnds(flag) THEN TRUE
                     ELSE IF gameState'.winner = Null THEN FALSE ELSE flag

\* A variant without gameState.currentPlayer among the dependencies.
AiDeps_NoPlayer(mode, state) == <<mode, state.winner, state.difficulty>>

\* The dependencies of the AI turn effect.
AiDeps(mode, state) == <<state.currentPlayer, mode, state.winner, state.difficulty>>

\* The AI turn effect after the render that follows a handler, which left the
\* timer at pending: when a dependency has changed the timer is cleared, and
\* on O's turn of an unfinished CPU game a new one is set, which sees the
\* gameState of this render.
AiTurn(pending) ==
    timer' = IF AiDeps(gameMode', gameState') = AiDeps(gameMode, gameState) THEN pending
             ELSE IF gameMode' = "cpu" /\ gameState'.currentPlayer = "O" /\ gameState'.winner = Null
                  THEN gameState' ELSE NoTimer

\* The effects that run after a handler's render.
Effects(flag, pending) == GameEnd(flag) /\ AiTurn(pending)

\* handleMove: the new <<gameState, undoneMoves>>.
handleMove(boardIndex, cellIndex, isRemote) ==
    IF gameState.winner # Null THEN <<gameState, undoneMoves>>
    ELSE IF gameMode = "online" /\ ~isRemote /\ gameState.currentPlayer # myPlayerId
         THEN <<gameState, undoneMoves>>
    ELSE IF ~isMoveValid(gameState, boardIndex, cellIndex) THEN <<gameState, undoneMoves>>
    ELSE << makeMove(gameState, boardIndex, cellIndex),
            IF isRemote THEN undoneMoves ELSE << >> >>

\* A click on cell c of board b (BigBoard onMove).
Click(b, c) ==
    /\ gameMode # "none"
    /\ LET moved == handleMove(b, c, FALSE)
       IN gameState' = moved[1] /\ undoneMoves' = moved[2]
    /\ UNCHANGED <<ovars, gameMode, myPlayerId, connected, stray, hvars, xvars>>
    /\ Effects(statsRecorded, timer)

\* handleMove of the render whose gameState is seen, called by the timer of
\* that render's AI turn effect: the new <<gameState, undoneMoves>>.
handleMoveTimed(seen, boardIndex, cellIndex) ==
    IF seen.winner # Null THEN <<gameState, undoneMoves>>
    ELSE IF ~isMoveValid(seen, boardIndex, cellIndex) THEN <<gameState, undoneMoves>>
    ELSE << makeMove(seen, boardIndex, cellIndex), << >> >>

\* The AI turn effect's timer fires: getBestMove has returned one of the moves
\* returned, in an environment that lets the engine make the moves allowed.
TimerFires(allowed, returned) ==
    /\ timer # NoTimer
    /\ \E aiMove \in returned :
          /\ <<aiMove.boardIndex, aiMove.cellIndex>> \in allowed
          /\ LET moved == handleMoveTimed(timer, aiMove.boardIndex, aiMove.cellIndex)
             IN gameState' = moved[1] /\ undoneMoves' = moved[2]
    /\ UNCHANGED <<ovars, gameMode, myPlayerId, connected, stray, hvars, xvars>>
    /\ Effects(statsRecorded, NoTimer)

AiMove == TimerFires(Requests, EngineMoves(timer))

\* The peer's message is delivered; outside online mode (the user has left the
\* game view for a local or CPU game, the connection still open) one message is.
Delivered ==
    IF gameMode = "online"
    THEN stray' = stray
    ELSE ~stray /\ stray' = TRUE

\* Online data listener: a MOVE message arrives.
RemoteMove(b, c) ==
    /\ connected
    /\ Delivered
    /\ LET moved == handleMove(b, c, TRUE)
       IN gameState' = moved[1] /\ undoneMoves' = moved[2]
    /\ UNCHANGED <<ovars, gameMode, myPlayerId, connected, hvars, xvars>>
    /\ Effects(statsRecorded, timer)

\* Online data listener: the host's SYNC message arrives.
RemoteSync ==
    /\ connected
    /\ Delivered
    /\ gameState' = INITIAL_GAME_STATE
    /\ undoneMoves' = << >>
    /\ UNCHANGED <<ovars, gameMode, myPlayerId, connected, hvars, xvars>>
    /\ Effects(statsRecorded, timer)

\* Online data listener: a RESTART message arrives.
RemoteRestart ==
    /\ connected
    /\ Delivered
    /\ gameState' = INITIAL_GAME_STATE
    /\ undoneMoves' = << >>
    /\ UNCHANGED <<ovars, gameMode, myPlayerId, connected, hvars, xvars>>
    /\ Effects(FALSE, timer)

startLocalGame ==
    /\ gameMode' = "local"
    /\ gameState' = INITIAL_GAME_STATE
    /\ undoneMoves' = << >>
    /\ UNCHANGED <<ovars, myPlayerId, connected, stray, hvars, xvars>>
    /\ Effects(statsRecorded, timer)

startCpuGame(difficulty) ==
    /\ gameMode' = "cpu"
    /\ gameState' = [INITIAL_GAME_STATE EXCEPT !.difficulty = difficulty]
    /\ undoneMoves' = << >>
    /\ UNCHANGED <<ovars, myPlayerId, connected, stray, hvars, xvars>>
    /\ Effects(statsRecorded, timer)

\* startOnlineHost: the peer.onConnection callback runs (the peer connects
\* while the menu that made the request is still shown).
HostConnected ==
    /\ gameMode = "none"
    /\ ~connected
    /\ connected' = TRUE
    /\ stray' = FALSE
    /\ gameMode' = "online"
    /\ myPlayerId' = "X"
    /\ gameState' = INITIAL_GAME_STATE
    /\ undoneMoves' = << >>
    /\ UNCHANGED <<ovars, hvars, xvars>>
    /\ Effects(statsRecorded, timer)

\* joinOnlineGame: the peer.connect callback runs (the connection opens
\* while the menu that made the request is still shown).
JoinConnected ==
    /\ gameMode = "none"
    /\ ~connected
    /\ connected' = TRUE
    /\ stray' = FALSE
    /\ gameMode' = "online"
    /\ myPlayerId' = "O"
    /\ UNCHANGED <<ovars, gameState, undoneMoves, hvars, xvars>>
    /\ Effects(statsRecorded, timer)

\* A variant that takes two entries whenever the log has two.
MovesToUndo_TwoWhenPossible ==
    IF gameMode = "cpu" /\ Len(gameState.history) >= 2 THEN 2 ELSE 1

\* handleUndo: the entries taken off the log.
MovesToUndo ==
    IF gameMode = "cpu" /\ gameState.currentPlayer = "X" /\ Len(gameState.history) >= 2
    THEN 2 ELSE 1

\* A variant that truncates the log and keeps the boards as they are.
handleUndo_NoReplay ==
    /\ gameMode \notin {"none", "online"}
    /\ Len(gameState.history) # 0
    /\ Len(undoneMoves) + MovesToUndo <= MaxUndone
    /\ LET n              == Len(gameState.history)
           currentHistory == SubSeq(gameState.history, 1, n - MovesToUndo)
           removedMoves   == SubSeq(gameState.history, n - MovesToUndo + 1, n)
       IN /\ undoneMoves' = removedMoves \o undoneMoves
          /\ gameState' = [gameState EXCEPT !.history = currentHistory]
    /\ UNCHANGED <<ovars, gameMode, myPlayerId, connected, stray, hvars, xvars>>
    /\ Effects(FALSE, timer)

\* A variant that pushes each popped move at the end of removedMoves.
Undone_Pushed ==
    LET n              == Len(gameState.history)
        currentHistory == SubSeq(gameState.history, 1, n - MovesToUndo)
        removedMoves   == [i \in 1..MovesToUndo |-> gameState.history[n + 1 - i]]
    IN << reconstructGameState(currentHistory, gameState.difficulty),
          removedMoves \o undoneMoves >>

\* handleUndo where it does not return at once: <<newState, the new undoneMoves>>.
Undone ==
    LET n              == Len(gameState.history)
        currentHistory == SubSeq(gameState.history, 1, n - MovesToUndo)
        removedMoves   == SubSeq(gameState.history, n - MovesToUndo + 1, n)
    IN << reconstructGameState(currentHistory, gameState.difficulty),
          removedMoves \o undoneMoves >>

handleUndo ==
    /\ gameMode \notin {"none", "online"}
    /\ Len(gameState.history) # 0
    /\ Len(undoneMoves) + MovesToUndo <= MaxUndone
    /\ gameState' = Undone[1]
    /\ undoneMoves' = Undone[2]
    /\ UNCHANGED <<ovars, gameMode, myPlayerId, connected, stray, hvars, xvars>>
    /\ Effects(FALSE, timer)

\* handleRedo where it does not return at once, on a gameState and an
\* undoneMoves: <<newState, remainingUndone>>.
Redone(state, undone) ==
    << makeMove(state, undone[1].boardIndex, undone[1].cellIndex), Tail(undone) >>

handleRedo ==
    /\ gameMode \notin {"none", "online"}
    /\ Len(undoneMoves) # 0
    /\ gameState' = Redone(gameState, undoneMoves)[1]
    /\ undoneMoves' = Redone(gameState, undoneMoves)[2]
    /\ UNCHANGED <<ovars, gameMode, myPlayerId, connected, stray, hvars, xvars>>
    /\ Effects(statsRecorded, timer)

handleRestart ==
    /\ gameMode # "none"
    /\ gameState' = INITIAL_GAME_STATE
    /\ undoneMoves' = << >>
    /\ UNCHANGED <<ovars, gameMode, myPlayerId, connected, stray, hvars, xvars>>
    /\ Effects(FALSE, timer)

handleExitGame ==
    /\ gameMode # "none"
    /\ connected' = FALSE
    /\ stray' = FALSE
    /\ gameMode' = "none"
    /\ undoneMoves' = << >>
    /\ UNCHANGED <<ovars, gameState, myPlayerId, hvars, xvars>>
    /\ Effects(FALSE, timer)

Init ==
    /\ gameMode = "none"
    /\ gameState = INITIAL_GAME_STATE
    /\ undoneMoves = << >>
    /\ myPlayerId = "X"
    /\ connected = FALSE
    /\ stray = FALSE
    /\ heap = InitialHeap
    /\ states = << InitialRef >>
    /\ inputOf = << 0 >>
    /\ listener = INITIAL_GAME_STATE
    /\ asked = NotAsked
    /\ answer = NoMove
    /\ rawScore = NoScore
    /\ analysis = NotAnalysed
    /\ statsRecorded = FALSE
    /\ recorded = 0
    /\ timer = NoTimer
    /\ engine = {}
    /\ peers = [p \in Players |-> INITIAL_GAME_STATE]
    /\ wire = [p \in Players |-> << >>]

\* The App's handlers and effects; the profile store is not followed here.
Next ==
    \/ \E m \in Requests : Click(m[1], m[2]) /\ UNCHANGED fvars
    \/ AiMove /\ UNCHANGED fvars
    \/ \E m \in Requests : RemoteMove(m[1], m[2]) /\ UNCHANGED fvars
    \/ RemoteSync /\ UNCHANGED fvars
    \/ RemoteRestart /\ UNCHANGED fvars
    \/ startLocalGame /\ UNCHANGED fvars
    \/ \E d \in Difficulties : startCpuGame(d) /\ UNCHANGED fvars
    \/ HostConnected /\ UNCHANGED fvars
    \/ JoinConnected /\ UNCHANGED fvars
    \/ handleUndo /\ UNCHANGED fvars
    \/ handleRedo /\ UNCHANGED fvars
    \/ handleRestart /\ UNCHANGED fvars
    \/ handleExitGame /\ UNCHANGED fvars

Spec == Init /\ [][Next]_vars

------------------------------------------------------------------------------
(* App.tsx (src/App.tsx), the earlier App: startLocalGame, handleMove,        *)
(* handleRestart and goBackToMenu assign what the later App's handlers do;    *)
(* the data listener is registered once, inside startOnlineHost and           *)
(* joinOnlineGame, and calls the handleMove of the render that registered it. *)

\* handleMove of a render whose gameState is seen, called by the data listener
\* (isRemote is true): the new gameState.
handleMoveSeen(seen, boardIndex, cellIndex) ==
    IF seen.winner # Null THEN gameState
    ELSE IF ~isMoveValid(seen, boardIndex, cellIndex) THEN gameState
    ELSE makeMove(seen, boardIndex, cellIndex)

\* The MOVE messages <<b, c>> the peer sends to a listener that sees this state.
RequestsSeen(seen) ==
    LET log == MoveLog(seen.history)
    IN { g[Len(log) + 1] : g \in { h \in Games : Len(log) < Len(h) /\ IsPrefix(log, h) } }
       \cup (IF InFan(log) THEN Idx \X Idx ELSE {})

\* startOnlineHost registers the listener, then its onConnection callback runs.
HostRegistered ==
    /\ gameMode = "none"
    /\ ~connected
    /\ listener' = gameState
    /\ connected' = TRUE
    /\ gameMode' = "online"
    /\ myPlayerId' = "X"
    /\ gameState' = INITIAL_GAME_STATE
    /\ undoneMoves' = << >>
    /\ UNCHANGED <<ovars, stray, hvars, asked, answer, rvars>>
    /\ Effects(statsRecorded, timer)

\* joinOnlineGame registers the listener, then its connect callback runs.
JoinRegistered ==
    /\ gameMode = "none"
    /\ ~connected
    /\ listener' = gameState
    /\ connected' = TRUE
    /\ gameMode' = "online"
    /\ myPlayerId' = "O"
    /\ UNCHANGED <<ovars, gameState, undoneMoves, stray, hvars, asked, answer, rvars>>
    /\ Effects(statsRecorded, timer)

\* The listener receives a MOVE message.
ListenerMove(b, c) ==
    /\ connected
    /\ gameState' = handleMoveSeen(listener, b, c)
    /\ UNCHANGED <<ovars, gameMode, undoneMoves, myPlayerId, connected, stray, hvars, xvars>>
    /\ Effects(statsRecorded, timer)

\* The joiner's listener receives the host's SYNC message.
ListenerSync ==
    /\ connected
    /\ myPlayerId = "O"
    /\ gameState' = INITIAL_GAME_STATE
    /\ undoneMoves' = << >>
    /\ UNCHANGED <<ovars, gameMode, myPlayerId, connected, stray, hvars, xvars>>
    /\ Effects(statsRecorded, timer)

\* The listener receives a RESTART message.
ListenerRestart ==
    /\ connected
    /\ gameState' = INITIAL_GAME_STATE
    /\ undoneMoves' = << >>
    /\ UNCHANGED <<ovars, gameMode, myPlayerId, connected, stray, hvars, xvars>>
    /\ Effects(statsRecorded, timer)

goBackToMenu == handleExitGame

\* The Menu, shown while gameMode is null: onStartLocal.
MenuStartLocal == gameMode = "none" /\ startLocalGame

NextEarlier ==
    \/ MenuStartLocal /\ UNCHANGED fvars
    \/ \E m \in Requests : Click(m[1], m[2]) /\ UNCHANGED fvars
    \/ handleRestart /\ UNCHANGED fvars
    \/ goBackToMenu /\ UNCHANGED fvars
    \/ HostRegistered /\ UNCHANGED fvars
    \/ JoinRegistered /\ UNCHANGED fvars
    \/ \E m \in RequestsSeen(listener) : ListenerMove(m[1], m[2]) /\ UNCHANGED fvars
    \/ ListenerSync /\ UNCHANGED fvars
    \/ ListenerRestart /\ UNCHANGED fvars

SpecEarlier == Init /\ [][NextEarlier]_vars

------------------------------------------------------------------------------
(* The callers of makeMove, on objects.  states[1] is INITIAL_GAME_STATE.     *)

MaxKept == 6

\* The games the calls follow.
KeptGames == {GameTopRow}

\* The moves <<b, c>> a caller makes from a state with this history.
NextMoves(history) ==
    LET log == MoveLog(history)
    IN { g[Len(log) + 1] : g \in { k \in KeptGames : Len(log) < Len(k) /\ IsPrefix(log, k) } }

\* The GameState value of the j-th state made.
Kept(j) == Deep(heap, states[j])

\* reconstructGameState, line 105: { ...INITIAL_GAME_STATE, difficulty }, a new
\* GameState object with INITIAL_GAME_STATE's boards and macro array.
reconstructStart(initialDifficulty) ==
    /\ Len(states) < MaxKept
    /\ states' = Append(states, [states[1] EXCEPT !.difficulty = initialDifficulty])
    /\ inputOf' = Append(inputOf, 1)
    /\ UNCHANGED <<evars, ovars, heap, avars, xvars>>

\* makeMove(states[i], b, c) whose result the caller keeps: handleMove and
\* handleRedo with the current gameState, reconstructGameState's loop with
\* currentState.
KeptMove(i, b, c) ==
    /\ Len(states) < MaxKept
    /\ LET r == makeMoveH(heap, states[i], b, c)
       IN /\ heap' = r.heap
          /\ states' = Append(states, r.state)
          /\ inputOf' = Append(inputOf, i)
    /\ UNCHANGED <<evars, ovars, avars, xvars>>

\* makeMove(states[i], b, c) whose result the caller drops after looking at it:
\* the simulated states of getBestMove and analyzeMoveQuality, made from the
\* state the caller was given.
SimulatedMove(i, b, c) ==
    /\ heap' = Dropped(heap, makeMoveH(heap, states[i], b, c).heap)
    /\ UNCHANGED <<evars, ovars, states, inputOf, avars, xvars>>

\* The moves of getAvailableMoves(state), which getBestMove loops over.
AvailableMoves(state) ==
    LET moves == getAvailableMoves(state) IN { moves[k] : k \in 1..Len(moves) }

NextHeap ==
    \/ reconstructStart(Undefined)
    \/ \E i \in 1..Len(states) : \E m \in NextMoves(states[i].history) : KeptMove(i, m[1], m[2])
    \/ \E m \in AvailableMoves(Kept(Len(states))) :
          SimulatedMove(Len(states), m.boardIndex, m.cellIndex)

SpecHeap == Init /\ [][NextHeap]_vars

------------------------------------------------------------------------------
(* The rules engine and getBestMove on their own: legal moves are played one  *)
(* after the other, and getBestMove is asked for a move in the position.      *)

\* The games the moves follow.
PlayedGames == {GameTie, GameDraw, GameTopRow, GameLastCell}

\* The moves <<b, c>> tried in the current position.
PlayRequests ==
    LET log == MoveLog(gameState.history)
    IN { g[Len(log) + 1] : g \in { h \in PlayedGames : Len(log) < Len(h) /\ IsPrefix(log, h) } }
       \cup (IF \E g \in PlayedGames : Len(log) \in FanAt(g) /\ IsPrefix(log, g)
             THEN Idx \X Idx ELSE {})

\* A caller checks the move with isMoveValid and applies it with makeMove.
Play(b, c) ==
    /\ isMoveValid(gameState, b, c)
    /\ gameState' = makeMove(gameState, b, c)
    /\ asked' = NotAsked
    /\ answer' = NoMove
    /\ UNCHANGED <<evars, ovars, gameMode, undoneMoves, myPlayerId, connected, stray, hvars, listener, rvars>>

\* getBestMove(gameState, difficulty) is called once in a position, the clock's
\* deadline at read fire.
Ask(difficulty, fire) ==
    /\ asked = NotAsked
    /\ asked' = [difficulty |-> difficulty, deadline |-> fire]
    /\ LET returned == getBestMove(gameState, difficulty, fire)
       IN IF returned = {} THEN answer' = NoMove ELSE answer' \in returned
    /\ UNCHANGED <<evars, ovars, avars, hvars, listener, rvars>>

NextPlay ==
    \/ \E m \in PlayRequests : Play(m[1], m[2])
    \/ \E d \in Tiers : \E fire \in ClockFor(d) : Ask(d, fire)

SpecPlay == Init /\ [][NextPlay]_vars

------------------------------------------------------------------------------
(* GameReview.tsx: a stored game record is shown move by move.  gameState is  *)
(* currentState, the record replayed up to currentMoveIndex, which is the     *)
(* length of its history.                                                     *)

\* The games of the records reviewed.
ReviewedGames == Games \cup {GameTie}

\* The moves <<b, c>> that follow the moves shown so far in some record: the
\* next move of a game, or any legal move, after which that record ends.
RecordedMoves ==
    LET log == MoveLog(gameState.history)
    IN IF \E g \in ReviewedGames : Len(log) < Len(g) /\ IsPrefix(log, g)
       THEN { m \in Idx \X Idx : isMoveValid(gameState, m[1], m[2]) }
       ELSE {}

\* The render that shows currentState after the move <<b, c>> and its two
\* effects: the evaluation bar's evaluateState call on currentState and the
\* analysis of the move that just happened.
Rendered(b, c, currentState) ==
    /\ gameState' = currentState
    /\ rawScore' = [player |-> "X", score |-> evaluateState(currentState, "X")]
    /\ analysis' = analyzeMoveQuality(gameState, [boardIndex |-> b, cellIndex |-> c])
    /\ UNCHANGED <<evars, ovars, gameMode, undoneMoves, myPlayerId, connected, stray, hvars,
                   listener, asked, answer>>

\* setCurrentMoveIndex(currentMoveIndex + 1): the record's history is replayed
\* up to the move <<b, c>>.
ShowMove(b, c) ==
    Rendered(b, c,
             reconstructGameState(
                 Append(gameState.history,
                        [boardIndex |-> b, cellIndex |-> c,
                         player |-> gameState.currentPlayer]),
                 Undefined))

NextReview == \E m \in RecordedMoves : ShowMove(m[1], m[2])

SpecReview == Init /\ [][NextReview]_vars

------------------------------------------------------------------------------
(* The App in CPU mode, the engine free to make any move it chooses.  The     *)
(* human's clicks follow the games, or take the first available cell, up to   *)
(* MaxTimed moves; the timer of the AI turn effect fires 600 ms after it is   *)
(* set unless the effect's cleanup clears it first.                           *)

MaxTimed == 3

\* The clicks <<b, c>> the human makes in the current state.
TimedRequests ==
    IF Len(gameState.history) >= MaxTimed THEN {}
    ELSE Requests \cup
         (LET moves == getAvailableMoves(gameState)
          IN IF moves = << >> THEN {}
             ELSE { <<moves[1].boardIndex, moves[1].cellIndex>> })

\* The engine's answers for the timer this step leaves.
Think == engine' = IF timer' = NoTimer THEN {} ELSE EngineMoves(timer')

TimerFiresFreely == TimerFires(Idx \X Idx, engine) /\ UNCHANGED recorded /\ Think

NextCpu ==
    \/ \E d \in Difficulties : startCpuGame(d) /\ UNCHANGED recorded /\ Think
    \/ \E m \in TimedRequests : gameMode = "cpu" /\ Click(m[1], m[2]) /\ UNCHANGED recorded /\ Think
    \/ TimerFiresFreely
    \/ gameMode = "cpu" /\ handleUndo /\ UNCHANGED recorded /\ Think
    \/ gameMode = "cpu" /\ handleRedo /\ UNCHANGED recorded /\ Think
    \/ gameMode = "cpu" /\ handleRestart /\ UNCHANGED recorded /\ Think
    \/ gameMode = "cpu" /\ handleExitGame /\ UNCHANGED recorded /\ Think

SpecCpu == Init /\ [][NextCpu]_vars /\ WF_vars(TimerFiresFreely)

------------------------------------------------------------------------------
(* The App with the profile store (src/unnamed/part_003, i.e. stats.ts): the  *)
(* game-end effect's updateProfileAfterGame call adds the result of the game  *)
(* to the profile.  recorded counts these calls since the game started.       *)

MaxRecorded == 2

\* The game-end effect after a handler that left statsRecorded at flag and the
\* results recorded in this game at count.
updateProfileAfterGame(flag, count) ==
    /\ recorded' = IF GameEnds(flag) THEN count + 1 ELSE count
    /\ recorded' <= MaxRecorded

NextStats ==
    \/ \E m \in Requests : Click(m[1], m[2]) /\ updateProfileAfterGame(statsRecorded, recorded) /\ UNCHANGED engine
    \/ AiMove /\ updateProfileAfterGame(statsRecorded, recorded) /\ UNCHANGED engine
    \/ startLocalGame /\ updateProfileAfterGame(statsRecorded, 0) /\ UNCHANGED engine
    \/ \E d \in Difficulties : startCpuGame(d) /\ updateProfileAfterGame(statsRecorded, 0) /\ UNCHANGED engine
    \/ handleUndo /\ updateProfileAfterGame(FALSE, recorded) /\ UNCHANGED engine
    \/ handleRedo /\ updateProfileAfterGame(statsRecorded, recorded) /\ UNCHANGED engine
    \/ handleRestart /\ updateProfileAfterGame(FALSE, 0) /\ UNCHANGED engine
    \/ handleExitGame /\ updateProfileAfterGame(FALSE, 0) /\ UNCHANGED engine

SpecStats == Init /\ [][NextStats]_vars

------------------------------------------------------------------------------
(* Properties *)

\* The mark p owns all three cells of some line of the 3x3 grid.
OwnsLine(grid, p) ==
    \E k \in 1..Len(WINNING_PATTERNS) :
       \A j \in 1..3 : grid[WINNING_PATTERNS[k][j]] = p

\* The outcome the rules give a grid: a mark's line, else Draw when full.
Outcome(grid) ==
    IF OwnsLine(grid, "X") THEN "X"
    ELSE IF OwnsLine(grid, "O") THEN "O"
    ELSE IF \A i \in Idx : grid[i] # Null THEN "Draw"
    ELSE Null

\* The last move sent the player to a decided sub-board with an empty cell left.
SentToDecided ==
    /\ gameState.lastMove # NoMove
    /\ gameState.winner = Null
    /\ gameState.boards[gameState.lastMove.cellIndex].winner # Null
    /\ ~AllFilled(gameState.boards[gameState.lastMove.cellIndex].cells)

\* C1: replaying the state's own moveLog from the empty initial state with
\* reconstructGameState gives a state equal to it in boards, macroBoard,
\* activeBoard, currentPlayer, winner, history and lastMove.
C1_ReplayReproducesState ==
    LET r == reconstructGameState(gameState.history, gameState.difficulty)
    IN /\ r.boards = gameState.boards
       /\ r.macroBoard = gameState.macroBoard
       /\ r.activeBoard = gameState.activeBoard
       /\ r.currentPlayer = gameState.currentPlayer
       /\ r.winner = gameState.winner
       /\ r.history = gameState.history
       /\ r.lastMove = gameState.lastMove

\* C1 witness: a state an undo has produced, in the middle of a game with a
\* decided sub-board, the undone moves waiting for a redo.
C1_Witness ==
    /\ Len(undoneMoves) = 2
    /\ Len(gameState.history) >= 10
    /\ \E i \in Idx : gameState.boards[i].winner # Null

\* C2: the game result is a Mark exactly when that Mark owns a macro line, Draw
\* exactly when every macroBoard entry is decided and no Mark owns a line, and
\* None in every other case.
C2_ResultFromMacroBoard ==
    LET m == gameState.macroBoard
    IN /\ (gameState.winner = "X") <=> OwnsLine(m, "X")
       /\ (gameState.winner = "O") <=> OwnsLine(m, "O")
       /\ (gameState.winner = "Draw") <=>
             /\ \A i \in Idx : m[i] # Null
             /\ ~OwnsLine(m, "X")
             /\ ~OwnsLine(m, "O")

\* C3: a state whose result is None has at least one available move.
C3_NeverStuck ==
    gameState.winner = Null => Len(getAvailableMoves(gameState)) >= 1

\* C3 witness: the game goes on after a move into a cell whose sub-board is decided.
C3_Witness == SentToDecided /\ Len(getAvailableMoves(gameState)) >= 1

\* C4: isMoveValid is false when the game is finished, when the active board is
\* another board, when the target board is decided or when the cell is marked,
\* and true in every other case.
C4_IsMoveValidCases ==
    \A b \in Idx, c \in Idx :
       isMoveValid(gameState, b, c) <=>
          ~ \/ gameState.winner # Null
            \/ (gameState.activeBoard # NoBoard /\ gameState.activeBoard # b)
            \/ gameState.boards[b].winner # Null
            \/ gameState.boards[b].cells[c] # Null

\* C4 witness: a free move with a decided board that has an empty cell, a marked
\* cell in an open board, and a legal move.
C4_Witness ==
    /\ gameState.winner = Null
    /\ gameState.activeBoard = NoBoard
    /\ \E b \in Idx, c \in Idx :
          gameState.boards[b].winner # Null /\ gameState.boards[b].cells[c] = Null
    /\ \E b \in Idx, c \in Idx :
          gameState.boards[b].winner = Null /\ gameState.boards[b].cells[c] # Null
    /\ \E b \in Idx, c \in Idx : isMoveValid(gameState, b, c)

\* C7: activeBoard is free or the index of a sub-board whose outcome is None
\* and which has an empty cell.
C7_ActiveBoardOpen ==
    \/ gameState.activeBoard = NoBoard
    \/ /\ gameState.boards[gameState.activeBoard].winner = Null
       /\ \E c \in Idx : gameState.boards[gameState.activeBoard].cells[c] = Null

\* C7 witness: the move went to a cell whose sub-board is won but not full, and
\* the active board is free.
C7_Witness == SentToDecided /\ gameState.activeBoard = NoBoard

\* C8: after a legal move at (b, c) the active board is c, unless sub-board c is
\* decided once the move has landed, and then it is free.
C8_NextBoardRule ==
    \A b \in Idx, c \in Idx :
       isMoveValid(gameState, b, c) =>
          LET n == makeMove(gameState, b, c)
          IN n.activeBoard = IF n.boards[c].winner # Null THEN NoBoard ELSE c

\* C8 witness: a legal move at (b, b) decides sub-board b itself.
C8_Witness ==
    \E b \in Idx :
       /\ isMoveValid(gameState, b, b)
       /\ makeMove(gameState, b, b).boards[b].winner # Null
       /\ makeMove(gameState, b, b).activeBoard = NoBoard

\* C9: the outcome of the sub-board a legal move is made in is the Mark that has
\* a complete line if there is one, Draw if the nine cells are filled without a
\* line, and None otherwise.
C9_SubBoardOutcome ==
    \A b \in Idx, c \in Idx :
       isMoveValid(gameState, b, c) =>
          LET n == makeMove(gameState, b, c)
          IN n.boards[b].winner = Outcome(n.boards[b].cells)

\* C9 witness: the last move filled the ninth cell of its sub-board and won it.
C9_Witness ==
    /\ gameState.lastMove # NoMove
    /\ AllFilled(gameState.boards[gameState.lastMove.boardIndex].cells)
    /\ gameState.boards[gameState.lastMove.boardIndex].winner \in Players

\* C10: macroBoard[i] is the outcome of sub-board i; a player with marks at cells
\* 0 and 1 of a sub-board who plays its cell 2 owns the sub-board and the
\* macroBoard entry.
C10_MacroMirrorsBoards ==
    /\ \A i \in Idx : gameState.macroBoard[i] = gameState.boards[i].winner
    /\ \A b \in Idx :
          ( /\ isMoveValid(gameState, b, 2)
            /\ gameState.boards[b].cells[0] = gameState.currentPlayer
            /\ gameState.boards[b].cells[1] = gameState.currentPlayer )
          => LET n == makeMove(gameState, b, 2)
             IN /\ n.boards[b].winner = gameState.currentPlayer
                /\ n.macroBoard[b] = gameState.currentPlayer

\* C10 witness: the last move was cell 2 of a sub-board whose cells 0 and 1 the
\* mover held, and sub-board and macroBoard entry are the mover's.
C10_Witness ==
    LET b == gameState.lastMove.boardIndex
        p == Other(gameState.currentPlayer)
    IN /\ gameState.lastMove # NoMove
       /\ gameState.lastMove.cellIndex = 2
       /\ gameState.boards[b].cells[0] = p
       /\ gameState.boards[b].cells[1] = p
       /\ gameState.boards[b].cells[2] = p
       /\ gameState.boards[b].winner = p
       /\ gameState.macroBoard[b] = p

\* C5: a call of makeMove leaves every GameState that exists when it is made,
\* its input and the shared INITIAL_GAME_STATE among them, as it was: moveLog,
\* every cell, every sub-board outcome, macroBoard, activeBoard, currentPlayer
\* and result.
C5_InputUnchanged ==
    [][ \A i \in 1..Len(states) : Deep(heap', states[i]) = Deep(heap, states[i]) ]_vars

\* C5 witness: a kept call on INITIAL_GAME_STATE itself and a kept call that
\* decided a sub-board that is open in its input have been made.
C5_Witness ==
    /\ \E j \in 2..Len(states) : inputOf[j] = 1 /\ Len(states[j].history) = 1
    /\ \E j \in 2..Len(states) : \E b \in Idx :
          /\ Kept(j).boards[b].winner # Null
          /\ Kept(inputOf[j]).boards[b].winner = Null
          /\ Kept(inputOf[j]).macroBoard[b] = Null

\* C6: every state made from a moveLog L, by whichever calls, is what the fold
\* of makeMove over S from reconstructGameState(P) gives for every split
\* L = P ++ S (P = L: the replay of L itself), and two states made from the same
\* moveLog are identical.
C6_ReplayComposes ==
    \A j \in 1..Len(states) :
       LET s == Kept(j)
           L == s.history
       IN /\ \A k \in 0..Len(L) :
                ApplyMoves(reconstructGameState(SubSeq(L, 1, k), s.difficulty),
                           SubSeq(L, k + 1, Len(L))) = s
          /\ \A i \in 1..Len(states) :
                Kept(i).history = L =>
                   [Kept(i) EXCEPT !.difficulty = s.difficulty] = s

\* C6 witness: a moveLog of two moves or more has been replayed twice, once in
\* one run of calls and once by going on from an earlier state after calls for
\* another replay were made in between.
C6_Witness ==
    \E i \in 1..Len(states), j \in 1..Len(states) :
       /\ i < j
       /\ Len(states[i].history) >= 2
       /\ states[j].history = states[i].history
       /\ inputOf[i] = i - 1
       /\ inputOf[j] < j - 1
       /\ inputOf[j] # inputOf[i]

------------------------------------------------------------------------------
(* Claims C11..C20 *)

\* The cells <<b, c>> whose mark differs between two states.
ChangedCells(before, after) ==
    { m \in Idx \X Idx : after.boards[m[1]].cells[m[2]] # before.boards[m[1]].cells[m[2]] }

\* C11: every legal move changes exactly one cell, from empty to the mover's
\* mark, so a marked cell keeps its mark; and a sub-board whose outcome is set
\* keeps that outcome.
C11_MarksArePermanent ==
    [][ gameState' # gameState =>
          /\ Cardinality(ChangedCells(gameState, gameState')) = 1
          /\ \A m \in ChangedCells(gameState, gameState') :
                /\ gameState.boards[m[1]].cells[m[2]] = Null
                /\ gameState'.boards[m[1]].cells[m[2]] = gameState.currentPlayer
          /\ \A b \in Idx :
                gameState.boards[b].winner # Null
                   => gameState'.boards[b].winner = gameState.boards[b].winner
      ]_vars

\* A legal move has been made in one sub-board while another one was decided.
C11_Witness ==
    /\ gameState.history # << >>
    /\ \E b \in Idx : /\ b # gameState.lastMove.boardIndex
                      /\ gameState.boards[b].winner # Null

\* C12: currentPlayer is X exactly when the log has even length, and the log's
\* entries record X and O in turn, X first.
C12_PlayersAlternate ==
    /\ gameState.currentPlayer = "X" <=> Len(gameState.history) % 2 = 0
    /\ \A i \in 1..Len(gameState.history) :
          gameState.history[i].player = IF (i - 1) % 2 = 0 THEN "X" ELSE "O"

\* A log of at least three moves with O to move.
C12_Witness == Len(gameState.history) >= 3 /\ gameState.currentPlayer = "O"

\* C13: getAvailableMoves lists exactly the empty cells of the active sub-board,
\* or of every undecided sub-board when no board is active, in strictly
\* ascending order of board then cell; in the initial state it lists 81 moves.
C13_AvailableMovesListed ==
    LET moves == getAvailableMoves(gameState)
        Open(b) == IF gameState.activeBoard # NoBoard
                   THEN b = gameState.activeBoard
                   ELSE gameState.boards[b].winner = Null
    IN /\ { <<moves[k].boardIndex, moves[k].cellIndex>> : k \in 1..Len(moves) }
            = { m \in Idx \X Idx : Open(m[1]) /\ gameState.boards[m[1]].cells[m[2]] = Null }
       /\ \A j, k \in 1..Len(moves) :
             j < k => \/ moves[j].boardIndex < moves[k].boardIndex
                      \/ /\ moves[j].boardIndex = moves[k].boardIndex
                         /\ moves[j].cellIndex < moves[k].cellIndex
       /\ gameState = INITIAL_GAME_STATE => Len(moves) = 81

\* One sub-board is active, partly marked, and another one is decided.
C13_Witness ==
    /\ gameState.activeBoard # NoBoard
    /\ \E c \in Idx : gameState.boards[gameState.activeBoard].cells[c] # Null
    /\ \E b \in Idx : gameState.boards[b].winner # Null

\* C15: makeMove with a move that isMoveValid rejects returns a state with no
\* changed cell, the same currentPlayer and the same log.
C15_InvalidMoveRefused ==
    \A b, c \in Idx :
        ~isMoveValid(gameState, b, c) =>
            LET refused == makeMove(gameState, b, c)
            IN /\ ChangedCells(gameState, refused) = {}
               /\ refused.currentPlayer = gameState.currentPlayer
               /\ refused.history = gameState.history

\* C14: once the game has a result, no move request that goes through
\* handleMove changes gameState: neither a click nor a MOVE message given to
\* the data listener.
C14_NoMoveAfterResult ==
    gameState.winner # Null =>
        \A b, c \in Idx :
            /\ handleMove(b, c, FALSE)[1] = gameState
            /\ connected => handleMoveSeen(listener, b, c) = gameState

\* getBestMove has been called in the current position.
Asked == asked.deadline # 0

\* The <<boardIndex, cellIndex>> pairs of getAvailableMoves(gameState).
Available ==
    LET moves == getAvailableMoves(gameState)
    IN { <<moves[k].boardIndex, moves[k].cellIndex>> : k \in 1..Len(moves) }

\* C16: the impossible tier returns one of the available moves when there is
\* one, whichever read of the clock first finds the deadline exceeded.
C16_DeepMoveAvailable ==
    Asked /\ asked.difficulty = "impossible" /\ Available # {}
        => <<answer.boardIndex, answer.cellIndex>> \in Available

\* The deadline fires in the first minimax node of depth 1, several moves
\* being available.
C16_Witness ==
    /\ asked = [difficulty |-> "impossible", deadline |-> 2]
    /\ Cardinality(Available) > 1

\* C17: the impossible tier returns the move and the score that the search
\* without a deadline has when it stops after the last depth that finished
\* before the deadline; when no depth finished it returns the first available
\* move.
C17_LastCompletedDepth ==
    Asked /\ asked.difficulty = "impossible" /\ Available # {} =>
        LET moves == getAvailableMoves(gameState)
            done  == DeepSearch(gameState, moves, MAX_DEPTH_IMPOSSIBLE, asked.deadline).done
            whole == DeepSearch(gameState, moves, done, Infinity)
        IN /\ answer = [boardIndex |-> whole.move.boardIndex,
                        cellIndex |-> whole.move.cellIndex,
                        score |-> whole.score]
           /\ whole.done = done
           /\ done = 0 => /\ answer.boardIndex = moves[1].boardIndex
                          /\ answer.cellIndex = moves[1].cellIndex

\* The deadline fires after depth 1 has finished, and depth 1 has chosen a
\* move other than the first available one.
C17_Witness ==
    /\ Asked
    /\ asked.difficulty = "impossible"
    /\ Available # {}
    /\ LET moves == getAvailableMoves(gameState)
       IN /\ DeepSearch(gameState, moves, MAX_DEPTH_IMPOSSIBLE, asked.deadline).done >= 1
          /\ <<answer.boardIndex, answer.cellIndex>>
                # <<moves[1].boardIndex, moves[1].cellIndex>>

\* C18: whatever the difficulty, getBestMove returns null exactly when no move
\* is available, and otherwise one of the available moves.
C18_NullIffNoMoves ==
    Asked =>
        /\ answer = NoMove <=> Available = {}
        /\ Available # {} => <<answer.boardIndex, answer.cellIndex>> \in Available

\* The hard tier has been asked in a position without available moves.
C18_Witness ==
    Asked /\ asked.difficulty = "hard" /\ Available = {} /\ answer = NoMove

\* C19: the hard tier returns the first move, in getAvailableMoves order, among
\* those with the greatest evaluateState(makeMove(state, move), mover), with
\* that score.
C19_HardFirstMaximal ==
    Asked /\ asked.difficulty = "hard" /\ Available # {} =>
        LET moves == getAvailableMoves(gameState)
            n == Len(moves)
            score == [k \in 1..n |->
                        evaluateState(makeMove(gameState, moves[k].boardIndex,
                                               moves[k].cellIndex),
                                      gameState.currentPlayer)]
            first == CHOOSE k \in 1..n :
                        /\ \A j \in 1..n : score[j] <= score[k]
                        /\ \A j \in 1..(k - 1) : score[j] < score[k]
        IN answer = [boardIndex |-> moves[first].boardIndex,
                     cellIndex |-> moves[first].cellIndex,
                     score |-> score[first]]

\* The available moves that complete a line of mark p in their sub-board when
\* p marks the cell.
LineMoves(p) ==
    { m \in Available :
        OwnsLine([gameState.boards[m[1]].cells EXCEPT ![m[2]] = p], p) }

\* C20: the medium tier (also the default) returns a move that completes a line
\* for the mover when there is one; otherwise a cell where the opponent's mark
\* would complete a line when there is one; otherwise any available move.
C20_MediumPriority ==
    Asked /\ asked.difficulty \in {"medium", Undefined} /\ Available # {} =>
        LET mover == gameState.currentPlayer
            move  == <<answer.boardIndex, answer.cellIndex>>
        IN IF LineMoves(mover) # {} THEN move \in LineMoves(mover)
           ELSE IF LineMoves(Other(mover)) # {} THEN move \in LineMoves(Other(mover))
           ELSE move \in Available

\* The medium tier has been asked where no move wins a sub-board and some cell
\* blocks the opponent.
C20_Witness ==
    /\ Asked
    /\ asked.difficulty = "medium"
    /\ LineMoves(gameState.currentPlayer) = {}
    /\ LineMoves(Other(gameState.currentPlayer)) # {}

------------------------------------------------------------------------------
(* Claims C21..C27: the evaluator and the classifier, in SpecReview *)

\* The move shown last has been analysed.
Reviewed == analysis # NotAnalysed

\* previousState of that analysis: the record replayed up to the move before.
PreviousState ==
    reconstructGameState(SubSeq(gameState.history, 1, Len(gameState.history) - 1),
                         Undefined)

\* The move getBestMove(state, 'hard') recommends.
Recommended(state) == BestOf(getBestMove(state, "hard", 1))

\* C21: when the move analysed is the one the hard tier recommends for the
\* previous state, its classification is best or brilliant.
C21_OwnMoveBestOrBrilliant ==
    (Reviewed /\ analysis.moveMade = Recommended(PreviousState))
        => analysis.classification \in {"best", "brilliant"}

C21_Witness ==
    /\ Reviewed
    /\ PreviousState.winner = Null
    /\ analysis.moveMade = Recommended(PreviousState)
    /\ analysis.classification = "best"

\* C22: the analysis has no bestMove exactly when the classification is best or
\* brilliant, and under any other classification its bestMove is the move the
\* hard tier recommends.
C22_BestMoveOmittedWhenBest ==
    Reviewed =>
        IF analysis.classification \in {"best", "brilliant"}
        THEN analysis.bestMove = NoMove
        ELSE analysis.bestMove = Recommended(PreviousState)

\* C23: a move classified brilliant is the move the hard tier recommends and
\* its score exceeds 1000.
C23_BrilliantIsTopChoice ==
    (Reviewed /\ analysis.classification = "brilliant")
        => /\ analysis.moveMade = Recommended(PreviousState)
           /\ analysis.score > 1000

\* C24: in a state a player has won, the evaluator returns WIN_SCORE for the
\* winner and -WIN_SCORE for the other player, so the two scores are opposite;
\* the scores the review computed are these.
C24_DecisiveScoresOpposite ==
    (Reviewed /\ gameState.winner \in Players) =>
        /\ \A P \in Players :
              /\ evaluateState(gameState, P)
                    = (IF P = gameState.winner THEN WIN_SCORE ELSE -WIN_SCORE)
              /\ evaluateState(gameState, P) = -evaluateState(gameState, Other(P))
        /\ rawScore.score = evaluateState(gameState, rawScore.player)
        /\ analysis.score = evaluateState(gameState, Other(gameState.currentPlayer))

C24_Witness ==
    /\ Reviewed
    /\ gameState.winner = "O"
    /\ rawScore = [player |-> "X", score |-> -WIN_SCORE]
    /\ analysis.score = WIN_SCORE

\* C25: in a state whose winner is 'Draw', the evaluator returns 0 for both
\* players.
C25_DrawScoresZero ==
    (Reviewed /\ gameState.winner = "Draw") =>
        /\ rawScore.score = 0
        /\ \A P \in Players : evaluateStateAdvanced(gameState, P) = 0

\* The absolute value of a score.
Abs(n) == IF n < 0 THEN -n ELSE n

\* The most the terms of evaluateStateAdvanced can add up to in magnitude: eight
\* macro lines, nine sub-boards each won or at the most evaluateSmallBoardRaw
\* can give (the centre and eight lines), and one penalty.
HeuristicBound ==
    8 * Max(MACRO_WIN_THREAT, MACRO_BLOCK_THREAT)
    + Sum([i \in 1..9 |->
              getMacroWeight(i - 1)
                 * Max(Max(BOARD_WON, -BOARD_LOST), 5 + 8 * Max(LINE_2, BLOCK_OPP_2))], 9)
    + Max(-GIVE_FREE_MOVE, -SEND_TO_WINNABLE)

\* C26: in a state without a winner, the evaluator's score for either player is
\* within the sum of the greatest terms, and that sum is less than WIN_SCORE.
C26_HeuristicBelowWin ==
    (Reviewed /\ gameState.winner = Null) =>
        /\ HeuristicBound < WIN_SCORE
        /\ \A P \in Players : Abs(evaluateState(gameState, P)) <= HeuristicBound
        /\ Abs(rawScore.score) < WIN_SCORE
        /\ Abs(analysis.score) < WIN_SCORE

C26_Witness ==
    /\ Reviewed
    /\ gameState.winner = Null
    /\ \E k \in 1..8 : Count(gameState.macroBoard, WINNING_PATTERNS[k], "X") = 2
    /\ Abs(rawScore.score) > MACRO_WIN_THREAT

\* The weight the evaluator gives to sub-board i when a player has won it.
Captured(i) == BOARD_WON * getMacroWeight(i)

\* C27 as stated: WIN_SCORE exceeds each macro threat weight, which exceeds the
\* weight of each sub-board a player has won, which exceeds the magnitude of
\* each of the two penalties.
C27_DecisiveThreatCaptureTactical ==
    \A i \in Idx : gameState.boards[i].winner \in Players =>
        /\ WIN_SCORE > Max(MACRO_WIN_THREAT, MACRO_BLOCK_THREAT)
        /\ Min(MACRO_WIN_THREAT, MACRO_BLOCK_THREAT) > Captured(i)
        /\ Captured(i) > Max(-GIVE_FREE_MOVE, -SEND_TO_WINNABLE)

\* C27 amended: WIN_SCORE exceeds each macro threat weight, which is at least
\* the magnitude of each penalty, which exceeds the weight of each sub-board a
\* player has won.
C27_DecisiveThreatTacticalCapture ==
    \A i \in Idx : gameState.boards[i].winner \in Players =>
        /\ WIN_SCORE > Max(MACRO_WIN_THREAT, MACRO_BLOCK_THREAT)
        /\ Min(MACRO_WIN_THREAT, MACRO_BLOCK_THREAT)
              >= Max(-GIVE_FREE_MOVE, -SEND_TO_WINNABLE)
        /\ Min(-GIVE_FREE_MOVE, -SEND_TO_WINNABLE) > Captured(i)

C27_Witness ==
    /\ Reviewed
    /\ gameState.winner = Null
    /\ gameState.boards[4].winner \in Players
    /\ gameState.activeBoard = NoBoard

------------------------------------------------------------------------------
(* Claims C28, C29: the application's handlers *)

\* C28: a MOVE(b, c) message given to the data listener is tested against the
\* current gameState: when isMoveValid holds of it the new gameState is
\* makeMove of the current one, and otherwise gameState stays as it is.
C28_RemoteMoveOnLatestState ==
    connected =>
        \A b, c \in Idx :
            handleMoveSeen(listener, b, c)
                = (IF isMoveValid(gameState, b, c)
                   THEN makeMove(gameState, b, c) ELSE gameState)

\* handleRedo called k times in a row on the results <<state, undone>> of the
\* call before.
RedoneTimes(k, r) ==
    IF k = 2 THEN Redone(Redone(r[1], r[2])[1], Redone(r[1], r[2])[2])
    ELSE Redone(r[1], r[2])

\* C29: in local and cpu mode, handleUndo followed by as many handleRedo calls
\* as it removed moves gives the gameState and the undoneMoves there were
\* before the undo.
C29_UndoThenRedoRestores ==
    (gameMode \in {"local", "cpu"} /\ Len(gameState.history) # 0)
        => RedoneTimes(MovesToUndo, Undone) = <<gameState, undoneMoves>>

\* In cpu mode an undo of two moves and one redo have been made.
C29_Witness ==
    /\ gameMode = "cpu"
    /\ ~stray
    /\ gameState.currentPlayer = "O"
    /\ Len(undoneMoves) = 1
    /\ RedoneTimes(1, <<gameState, undoneMoves>>)[1].currentPlayer = "X"
    /\ MovesToUndo = 1

------------------------------------------------------------------------------
(* Claim C30: the search of getImpossibleMove against minimax without pruning *)

RECURSIVE PlainValue(_, _, _, _)
\* The minimax value of state at depth: minimax without alpha, beta and the
\* clock, every move of every node searched.
PlainValue(state, depth, isMaximizing, aiPlayer) ==
    IF state.winner = aiPlayer THEN WIN_SCORE + depth
    ELSE IF state.winner # Null /\ state.winner # "Draw" THEN -WIN_SCORE - depth
    ELSE IF state.winner = "Draw" THEN 0
    ELSE IF depth = 0 THEN evaluateStateAdvanced(state, aiPlayer)
    ELSE IF Len(getAvailableMoves(state)) = 0 THEN 0
    ELSE LET moves == getAvailableMoves(state)
             value == [k \in 1..Len(moves) |->
                          PlainValue(makeMove(state, moves[k].boardIndex, moves[k].cellIndex),
                                     depth - 1, ~isMaximizing, aiPlayer)]
         IN IF value = << >> THEN 0
            ELSE IF isMaximizing
            THEN CHOOSE v \in { value[k] : k \in 1..Len(moves) } :
                    \A k \in 1..Len(moves) : value[k] <= v
            ELSE CHOOSE v \in { value[k] : k \in 1..Len(moves) } :
                    \A k \in 1..Len(moves) : v <= value[k]

\* The minimax values at depth of the moves of sortedMoves, in their order.
PlainValues(state, sortedMoves, depth) ==
    [k \in 1..Len(sortedMoves) |->
        PlainValue(makeMove(state, sortedMoves[k].boardIndex, sortedMoves[k].cellIndex),
                   depth - 1, FALSE, state.currentPlayer)]

\* The first move of sortedMoves whose minimax value at depth is the greatest,
\* with that value.
PlainBest(state, sortedMoves, depth) ==
    LET value == PlainValues(state, sortedMoves, depth)
        first == IF value = << >> THEN 0
                 ELSE CHOOSE k \in 1..Len(sortedMoves) :
                        /\ \A j \in 1..Len(sortedMoves) : value[j] <= value[k]
                        /\ \A j \in 1..(k - 1) : value[j] < value[k]
    IN [move |-> sortedMoves[first], score |-> value[first]]

RECURSIVE PlainOrder(_, _)
\* sortedMoves at the start of the iteration of depth, when each iteration
\* before it has put the first move of greatest minimax value in front.
PlainOrder(state, depth) ==
    IF depth = 1
    THEN orderMoves(state, getAvailableMoves(state), state.currentPlayer)
    ELSE BestFirst(PlainOrder(state, depth - 1),
                   PlainBest(state, PlainOrder(state, depth - 1), depth - 1).move)

\* What the search asked for in this state has recorded: bestMove, bestScore
\* and the last depth whose iteration finished.
Recorded ==
    DeepSearch(gameState, getAvailableMoves(gameState), MAX_DEPTH_IMPOSSIBLE, asked.deadline)

\* C30: when the last iteration the search finished is that of depth d, the
\* score it recorded is the minimax value of the root at depth d without
\* pruning, and the move it recorded and returned is the first move in the
\* order of that iteration that has this value.
C30_PruningKeepsChoice ==
    (Asked /\ asked.difficulty = "impossible" /\ Available # {} /\ Recorded.done >= 1) =>
        LET plain == PlainBest(gameState, PlainOrder(gameState, Recorded.done), Recorded.done)
        IN /\ Recorded.score = plain.score
           /\ Recorded.move = plain.move
           /\ answer.boardIndex = plain.move.boardIndex
           /\ answer.cellIndex = plain.move.cellIndex

\* An iteration of depth 2 or more has finished, and for one of its moves the
\* search with alpha and beta returned a value other than the minimax value.
C30_Witness ==
    /\ Asked
    /\ asked.difficulty = "impossible"
    /\ Available # {}
    /\ Recorded.done >= 2
    /\ LET sortedMoves == PlainOrder(gameState, Recorded.done)
           value == PlainValues(gameState, sortedMoves, Recorded.done)
       IN \E k \in 2..Len(sortedMoves) :
             LET alpha == CHOOSE v \in { value[j] : j \in 1..(k - 1) } :
                             \A j \in 1..(k - 1) : value[j] <= v
             IN minimax(makeMove(gameState, sortedMoves[k].boardIndex,
                                 sortedMoves[k].cellIndex),
                        Recorded.done - 1, alpha, Infinity, FALSE,
                        gameState.currentPlayer, 0, Infinity).v # value[k]

------------------------------------------------------------------------------
(* C32: between one game start or restart and the next restart or exit, the  *)
(* result of the game is recorded in the profile at most once, under every   *)
(* interleaving of moves, undo and redo.                                     *)

C32_ResultRecordedOnce == recorded <= 1

------------------------------------------------------------------------------
(* C35: in CPU mode a human move request (a click on a cell) is applied only *)
(* when currentPlayer is X, also while the engine's timer is pending: every  *)
(* O move is the engine's.                                                    *)

C35_ClickOnlyOnHumanTurn ==
    (gameMode = "cpu" /\ gameState.currentPlayer = "O")
        => \A b, c \in Idx : handleMove(b, c, FALSE)[1] = gameState

------------------------------------------------------------------------------
(* C37: in CPU mode, whenever it is O's turn and the game is unfinished, the *)
(* engine's timer is set and sees the current gameState, so the move it      *)
(* makes is computed from and applied to the state that is current when it   *)
(* fires; and the turn does not last: the engine's move is applied, or an    *)
(* undo, redo, restart, exit or other move changes the state first.          *)

AiDue == gameMode = "cpu" /\ gameState.currentPlayer = "O" /\ gameState.winner = Null

C37_EngineMovesOnCurrentState ==
    /\ [](timer # NoTimer => timer = gameState)
    /\ [](AiDue => timer # NoTimer)
    /\ (AiDue ~> ~AiDue)

\* The engine has answered the human's first two moves, nothing undone.
C37_Witness ==
    /\ gameMode = "cpu"
    /\ Len(gameState.history) = 4
    /\ gameState.currentPlayer = "X"
    /\ timer = NoTimer
    /\ undoneMoves = << >>

------------------------------------------------------------------------------
(* C38: in CPU mode, immediately after any successful undo the player to     *)
(* move is X, whatever the state before the undo was: mid-game on either     *)
(* turn, or a finished game won by X, won by O or drawn.                     *)

C38_UndoLeavesHumanToMove ==
    (gameMode = "cpu" /\ Len(gameState.history) # 0)
        => Undone[1].currentPlayer = "X"

\* A game that O won has been undone: the engine's winning move and the
\* human's move before it are on the redo stack.
C38_Witness ==
    /\ gameMode = "cpu"
    /\ ~stray
    /\ Len(undoneMoves) = 2
    /\ gameState.currentPlayer = "X"
    /\ RedoneTimes(2, <<gameState, undoneMoves>>)[1].winner = "O"

------------------------------------------------------------------------------
(* C36: every move that handleRedo applies is legal (isMoveValid holds) in   *)
(* the gameState it is applied to and is recorded with the player of the     *)
(* undone entry, under every interleaving of moves, AI moves, undo, redo,    *)
(* restart and mode changes; a new local move empties the redo stack.        *)

C36_RedoAppliesLegalMove ==
    /\ (gameMode \in {"local", "cpu"} /\ undoneMoves # << >>)
          => /\ isMoveValid(gameState, undoneMoves[1].boardIndex, undoneMoves[1].cellIndex)
             /\ gameState.currentPlayer = undoneMoves[1].player
    /\ \A b, c \in Idx :
          handleMove(b, c, FALSE)[1] # gameState => handleMove(b, c, FALSE)[2] = << >>

\* The same, where no message of a peer has been delivered outside online mode.
C36_RedoLegalWithoutStrayMessage ==
    ~stray => C36_RedoAppliesLegalMove


\* ---------------------------------------------------------------------------
\* isMoveValid and getAvailableMoves
\* ---------------------------------------------------------------------------

\* The (board, cell) pairs that getAvailableMoves lists for a state.
Listed(state) ==
    LET moves == getAvailableMoves(state)
    IN { <<moves[k].boardIndex, moves[k].cellIndex>> : k \in 1..Len(moves) }

\* C33: in every reachable state isMoveValid(state, b, c) holds exactly for the
\* moves that getAvailableMoves(state) lists, so that a state with a result has
\* no listed move.
C33_ValidIffListed ==
    /\ \A b, c \in Idx : isMoveValid(gameState, b, c) <=> <<b, c>> \in Listed(gameState)
    /\ gameState.winner # Null => getAvailableMoves(gameState) = << >>

\* While the game has no result the two functions agree.
C33_ValidIffListedInPlay ==
    gameState.winner = Null =>
        \A b, c \in Idx : isMoveValid(gameState, b, c) <=> <<b, c>> \in Listed(gameState)


\* ---------------------------------------------------------------------------
\* isMoveValid with indices outside 0..8
\* ---------------------------------------------------------------------------

\* The numbers a MOVE message is taken to carry: the indices and one number on
\* each side of them.
Numeric == (0 - 1) .. 9

\* isMoveValid for any two numbers: "true", "false", or "TypeError" when the
\* function throws.  state.boards[boardIndex] is undefined for a boardIndex
\* outside 0..8 and reading its winner throws; cells[cellIndex] is undefined
\* for a cellIndex outside 0..8 and undefined !== null.
isMoveValidNumeric(state, boardIndex, cellIndex) ==
    IF state.winner # Null THEN "false"
    ELSE IF state.activeBoard # NoBoard /\ state.activeBoard # boardIndex THEN "false"
    ELSE IF boardIndex \notin Idx THEN "TypeError"
    ELSE IF state.boards[boardIndex].winner # Null THEN "false"
    ELSE IF cellIndex \notin Idx THEN "false"
    ELSE IF state.boards[boardIndex].cells[cellIndex] # Null THEN "false"
    ELSE "true"

\* handleMove called by the data listener with the numbers of a MOVE message:
\* the new gameState.  A throw in isMoveValid ends the handler before any
\* setState.
handleMoveNumeric(boardIndex, cellIndex) ==
    IF gameState.winner # Null THEN gameState
    ELSE IF isMoveValidNumeric(gameState, boardIndex, cellIndex) # "true" THEN gameState
    ELSE makeMove(gameState, boardIndex, cellIndex)

\* C39: isMoveValid returns false, and does not throw, whenever boardIndex or
\* cellIndex is outside 0..8, and a MOVE message with such indices leaves the
\* receiver's gameState unchanged.
C39_OutOfRangeIsFalse ==
    \A b, c \in Numeric :
        (b \notin Idx \/ c \notin Idx) =>
            /\ isMoveValidNumeric(gameState, b, c) = "false"
            /\ handleMoveNumeric(b, c) = gameState

\* What does hold: the receiver's gameState is unchanged, and the answer is
\* false unless boardIndex is out of range while any board may be played.
C39_OutOfRangeLeavesState ==
    \A b, c \in Numeric :
        (b \notin Idx \/ c \notin Idx) =>
            /\ handleMoveNumeric(b, c) = gameState
            /\ isMoveValidNumeric(gameState, b, c) # "true"
            /\ isMoveValidNumeric(gameState, b, c) = "TypeError"
                  <=> (b \notin Idx /\ gameState.winner = Null /\ gameState.activeBoard = NoBoard)

\* Within 0..8 the function is isMoveValid.
C39_InRangeAgrees ==
    \A b, c \in Idx :
        isMoveValidNumeric(gameState, b, c) = (IF isMoveValid(gameState, b, c) THEN "true" ELSE "false")


------------------------------------------------------------------------------
(* Whole games: legal moves are played one after the other until no move is  *)
(* legal.  The moves follow the games above; from every position of a game    *)
(* the play may also leave it by the first or the last available move, and    *)
(* away from the games it goes on with the first available move.              *)

\* The log is the beginning of one of the games.
OnGame(log) == \E g \in Games : IsPrefix(log, g)

\* The moves <<b, c>> tried in the current position.
GameMoves ==
    LET log == MoveLog(gameState.history)
        moves == getAvailableMoves(gameState)
    IN { g[Len(log) + 1] : g \in { h \in Games : Len(log) < Len(h) /\ IsPrefix(log, h) } }
       \cup (IF moves = << >> THEN {}
             ELSE { <<moves[1].boardIndex, moves[1].cellIndex>> }
                  \cup (IF OnGame(log)
                        THEN { <<moves[Len(moves)].boardIndex, moves[Len(moves)].cellIndex>> }
                        ELSE {}))

NextGame == \E m \in GameMoves : Play(m[1], m[2])

\* The players go on moving as long as a move is legal.
SpecGame == Init /\ [][NextGame]_vars /\ WF_vars(NextGame)

\* The number of marked cells of a state.
Marked(state) ==
    Cardinality({ m \in Idx \X Idx : state.boards[m[1]].cells[m[2]] # Null })

\* C40: along any sequence of legal moves from the initial state the length of
\* the move log always equals the number of marked cells and is at most 81,
\* and the game eventually has a result.
C40_GameTerminates ==
    /\ [](Len(gameState.history) = Marked(gameState) /\ Len(gameState.history) <= 81)
    /\ <>(gameState.winner # Null)

\* A game that left the recorded games has ended after more than 40 moves.
C40_Witness ==
    /\ gameState.winner # Null
    /\ Len(gameState.history) > 40
    /\ ~OnGame(MoveLog(gameState.history))


\* ---------------------------------------------------------------------------
\* minimax at finished nodes
\* ---------------------------------------------------------------------------

\* The depth of the searches started in positions one move before the end.
MaxPlies == 2

\* minimax called on a state with the whole window and no deadline.
Searched(state, depth, isMaximizing, aiPlayer) ==
    minimax(state, depth, -Infinity, Infinity, isMaximizing, aiPlayer, 0, Infinity)

\* The states one available move after the current one.
Children ==
    LET moves == getAvailableMoves(gameState)
    IN { makeMove(gameState, moves[k].boardIndex, moves[k].cellIndex) : k \in 1..Len(moves) }

RECURSIVE Narrow(_, _)
\* Every unfinished state within plies moves of state has an active sub-board,
\* so at most nine moves.
Narrow(state, plies) ==
    \/ state.winner # Null
    \/ /\ state.activeBoard # NoBoard
       /\ \/ plies = 0
          \/ LET moves == getAvailableMoves(state)
             IN \A k \in 1..Len(moves) :
                   Narrow(makeMove(state, moves[k].boardIndex, moves[k].cellIndex), plies - 1)

\* The player to move can end the game with a win by one move, in a position
\* whose search tree is narrow.
WinInOne ==
    /\ gameState.winner = Null
    /\ Narrow(gameState, MaxPlies - 1)
    /\ \E child \in Children : child.winner = gameState.currentPlayer

\* C31: at a finished node minimax returns WIN_SCORE + depth when the root
\* mover has won, -(WIN_SCORE + depth) when it has lost and 0 for a draw, with
\* one clock read and no further node; so a win with more depth remaining (one
\* reached in fewer plies) scores strictly higher and a loss with less depth
\* remaining (a later one) scores strictly higher, and a search from a
\* position with a win in one move returns that win's score, the opponent's
\* search its negation.
C31_FinishedNodeScore ==
    /\ gameState.winner # Null =>
          \A P \in Players, isMaximizing \in BOOLEAN :
              /\ \A depth \in 0..MAX_DEPTH_IMPOSSIBLE :
                    Searched(gameState, depth, isMaximizing, P)
                       = [v   |-> IF gameState.winner = P THEN WIN_SCORE + depth
                                  ELSE IF gameState.winner = "Draw" THEN 0
                                  ELSE -(WIN_SCORE + depth),
                          t   |-> 1,
                          out |-> FALSE]
              /\ \A d1, d2 \in 0..MAX_DEPTH_IMPOSSIBLE :
                    (d1 > d2 /\ gameState.winner \in Players) =>
                        IF gameState.winner = P
                        THEN Searched(gameState, d1, isMaximizing, P).v
                                > Searched(gameState, d2, isMaximizing, P).v
                        ELSE Searched(gameState, d2, isMaximizing, P).v
                                > Searched(gameState, d1, isMaximizing, P).v
    /\ WinInOne =>
          \A depth \in 1..MaxPlies :
              /\ Searched(gameState, depth, TRUE, gameState.currentPlayer).v
                    = WIN_SCORE + depth - 1
              /\ Searched(gameState, depth, FALSE, Other(gameState.currentPlayer)).v
                    = -(WIN_SCORE + depth - 1)

\* One move wins the game at once, another one leaves it open.
C31_Witness ==
    /\ WinInOne
    /\ \E child \in Children : child.winner = Null
    /\ Searched(gameState, MaxPlies, TRUE, gameState.currentPlayer).t > 2


------------------------------------------------------------------------------
(* Two Apps in an online game: the host plays X, the joiner plays O.  Each    *)
(* holds its own gameState; what one sends is delivered to the other in the   *)
(* order sent.                                                                *)

\* The most moves a game between the two has, the most messages under way to
\* one App, and the most moves of the joiner's earlier local game.
MaxOnline == 3
MaxInFlight == 2
MaxLocal == 1

\* The games the clicks follow.
OnlineGames == {GameTopRow, GameTie}

\* The messages of type MOVE, SYNC and RESTART.
MoveData(b, c) ==
    [type |-> "MOVE", boardIndex |-> b, cellIndex |-> c, state |-> INITIAL_GAME_STATE]
SyncData(state) ==
    [type |-> "SYNC", boardIndex |-> NoBoard, cellIndex |-> NoBoard, state |-> state]
RestartData ==
    [type |-> "RESTART", boardIndex |-> NoBoard, cellIndex |-> NoBoard, state |-> INITIAL_GAME_STATE]

\* peerService.sendData from the App playing p.
sendData(p, data) ==
    wire' = [wire EXCEPT ![Other(p)] = Append(@, data)]

\* The moves <<b, c>> clicked in a position: those of the recorded games and
\* the first available one.
OnlineMoves(state) ==
    LET log == MoveLog(state.history)
        moves == getAvailableMoves(state)
    IN { g[Len(log) + 1] : g \in { h \in OnlineGames : Len(log) < Len(h) /\ IsPrefix(log, h) } }
       \cup (IF moves = << >> THEN {} ELSE { <<moves[1].boardIndex, moves[1].cellIndex>> })

\* Before joining, the joiner's App has played a local game and left it:
\* handleExitGame keeps gameState.
JoinerLocalMove(b, c) ==
    /\ ~connected
    /\ Len(peers["O"].history) < MaxLocal
    /\ isMoveValid(peers["O"], b, c)
    /\ peers' = [peers EXCEPT !["O"] = makeMove(peers["O"], b, c)]
    /\ UNCHANGED <<wire, connected>>
    /\ UNCHANGED <<gameMode, gameState, undoneMoves, myPlayerId, stray, hvars, xvars, evars>>

\* The connection opens: the host's onConnection sets INITIAL_GAME_STATE and
\* sends SYNC; the joiner's callback sets its mode and player only.
OnlineConnected ==
    /\ ~connected
    /\ connected' = TRUE
    /\ peers' = [peers EXCEPT !["X"] = INITIAL_GAME_STATE]
    /\ sendData("X", SyncData(INITIAL_GAME_STATE))
    /\ UNCHANGED <<gameMode, gameState, undoneMoves, myPlayerId, stray, hvars, xvars, evars>>

\* handleMove(b, c) in the App playing p, online and not remote.
PeerClick(p, b, c) ==
    /\ connected
    /\ Len(peers[p].history) < MaxOnline
    /\ Len(wire[Other(p)]) < MaxInFlight
    /\ peers[p].winner = Null
    /\ peers[p].currentPlayer = p
    /\ isMoveValid(peers[p], b, c)
    /\ peers' = [peers EXCEPT ![p] = makeMove(peers[p], b, c)]
    /\ sendData(p, MoveData(b, c))
    /\ UNCHANGED <<gameMode, gameState, undoneMoves, myPlayerId, connected, stray, hvars, xvars, evars>>

\* handleRestart in the App playing p, online.
PeerRestart(p) ==
    /\ connected
    /\ Len(wire[Other(p)]) < MaxInFlight
    /\ sendData(p, RestartData)
    /\ peers' = [peers EXCEPT ![p] = INITIAL_GAME_STATE]
    /\ UNCHANGED <<gameMode, gameState, undoneMoves, myPlayerId, connected, stray, hvars, xvars, evars>>

\* The gameState of the App playing p after its data listener got data.
onData(p, data) ==
    IF data.type = "MOVE"
    THEN IF peers[p].winner # Null THEN peers[p]
         ELSE IF ~isMoveValid(peers[p], data.boardIndex, data.cellIndex) THEN peers[p]
         ELSE makeMove(peers[p], data.boardIndex, data.cellIndex)
    ELSE IF data.type = "SYNC" THEN data.state
    ELSE INITIAL_GAME_STATE

\* The oldest message under way to the App playing p is delivered.
PeerReceive(p) ==
    /\ connected
    /\ wire[p] # << >>
    /\ peers' = [peers EXCEPT ![p] = onData(p, Head(wire[p]))]
    /\ wire' = [wire EXCEPT ![p] = Tail(@)]
    /\ UNCHANGED <<gameMode, gameState, undoneMoves, myPlayerId, connected, stray, hvars, xvars, evars>>

NextOnline ==
    \/ \E m \in OnlineMoves(peers["O"]) : JoinerLocalMove(m[1], m[2])
    \/ OnlineConnected
    \/ \E p \in Players : \E m \in OnlineMoves(peers[p]) : PeerClick(p, m[1], m[2])
    \/ \E p \in Players : PeerRestart(p)
    \/ \E p \in Players : PeerReceive(p)

SpecOnline == Init /\ [][NextOnline]_vars

\* No message is under way between the two Apps.
Quiet == connected /\ \A p \in Players : wire[p] = << >>

\* C34: with messages delivered reliably and in order, the host and the joiner
\* hold the same gameState whenever no message is under way.
C34_PeersAgreeWhenQuiet ==
    Quiet => peers["X"] = peers["O"]

====
